---- MODULE Spec2Model ----
(***************************************************************************)
(* Model of the resume tailoring core of Resume-TailorExtension-Pro:       *)
(*   backend/src/models/resume.py     schema, coercion, validation         *)
(*   backend/src/services/gemini.py   upstream call, parse, merge, score   *)
(*   backend/src/app/api/tailor.py    the /tailor endpoint                 *)
(*   backend/src/utils/artifacts.py   artifact sessions                    *)
(*                                                                         *)
(* Python strings are sequences of one-character strings.  Untyped JSON    *)
(* data (the AI result, raw request fields) are tagged records, so that    *)
(* values of different Python types are never equal.                       *)
(***************************************************************************)
EXTENDS Integers, Sequences, FiniteSets, TLC

(***************************************************************************)
(* Python strings                                                          *)
(***************************************************************************)
Whitespace == {" ", "\n", "\t"}

RECURSIVE LStrip(_)
LStrip(s) ==
    IF s = <<>> THEN <<>>
    ELSE IF Head(s) \in Whitespace THEN LStrip(Tail(s)) ELSE s

RECURSIVE RStrip(_)
RStrip(s) ==
    IF s = <<>> THEN <<>>
    ELSE IF s[Len(s)] \in Whitespace THEN RStrip(SubSeq(s, 1, Len(s) - 1)) ELSE s

\* str.strip()
Strip(s) == RStrip(LStrip(s))

\* str.split(sep) for one-character separators, re.split(r"[,;\n]", s):
\* the pieces between separators, empty pieces included.
RECURSIVE SplitOn(_, _, _)
SplitOn(s, seps, cur) ==
    IF s = <<>> THEN <<cur>>
    ELSE IF Head(s) \in seps THEN <<cur>> \o SplitOn(Tail(s), seps, <<>>)
    ELSE SplitOn(Tail(s), seps, Append(cur, Head(s)))

Split(s, seps) == SplitOn(s, seps, <<>>)

RECURSIVE SelectNonBlank(_)
SelectNonBlank(parts) ==
    IF parts = <<>> THEN <<>>
    ELSE IF Strip(Head(parts)) # <<>>
         THEN <<Strip(Head(parts))>> \o SelectNonBlank(Tail(parts))
         ELSE SelectNonBlank(Tail(parts))

\* [s.strip() for s in text.split(...) if s.strip()]
SplitStripDrop(s, seps) == SelectNonBlank(Split(s, seps))

(***************************************************************************)
(* Untyped JSON / Python values                                            *)
(***************************************************************************)
Absent == [t |-> "absent"]
JNull == [t |-> "null"]
JStr(s) == [t |-> "str", s |-> s]
JNum(n) == [t |-> "num", n |-> n]
JBool(b) == [t |-> "bool", b |-> b]
JList(xs) == [t |-> "list", xs |-> xs]
\* kvs: sequence of [k |-> key string, v |-> value], keys unique, insertion order
JDict(kvs) == [t |-> "dict", kvs |-> kvs]

\* Python truthiness (bool(v)); an absent value counts as falsy
Truthy(v) ==
    CASE v.t = "str" -> v.s # <<>>
      [] v.t = "num" -> v.n # 0
      [] v.t = "bool" -> v.b
      [] v.t = "list" -> v.xs # <<>>
      [] v.t = "dict" -> v.kvs # <<>>
      [] OTHER -> FALSE

\* key in d
HasKey(d, k) == \E i \in 1..Len(d.kvs) : d.kvs[i].k = k

\* d[k] for a key that is present
DictGet(d, k) == d.kvs[CHOOSE i \in 1..Len(d.kvs) : d.kvs[i].k = k].v

\* d.get(k, default)
DictGetOr(d, k, default) == IF HasKey(d, k) THEN DictGet(d, k) ELSE default

\* d[k] = v : replaces in place or appends
DictPut(d, k, v) ==
    IF HasKey(d, k)
    THEN JDict([i \in 1..Len(d.kvs) |-> IF d.kvs[i].k = k THEN [k |-> k, v |-> v] ELSE d.kvs[i]])
    ELSE JDict(Append(d.kvs, [k |-> k, v |-> v]))

NoneText == <<"N", "o", "n", "e">>

\* str(v) for the values the inputs hold
PyStr(v) == IF v.t = "str" THEN v.s ELSE NoneText

(***************************************************************************)
(* models/resume.py: schema, coercion and validation                       *)
(***************************************************************************)
RECURSIVE StrStripDropList(_)
\* [str(s).strip() for s in val if str(s).strip()]
StrStripDropList(xs) ==
    IF xs = <<>> THEN <<>>
    ELSE IF Strip(PyStr(Head(xs))) # <<>>
         THEN <<JStr(Strip(PyStr(Head(xs))))>> \o StrStripDropList(Tail(xs))
         ELSE StrStripDropList(Tail(xs))

SkillSeparators == {",", ";", "\n"}

\* [s.strip() for s in re.split(r"[,;\n]", text) if s.strip()] as a list value
SplitSkills(text) ==
    LET parts == SplitStripDrop(text, SkillSeparators)
    IN  JList([i \in 1..Len(parts) |-> JStr(parts[i])])

RECURSIVE CoerceSkillsDict(_, _)
\* the loop over v.items() of coerce_skills; entries that are neither list
\* nor string are dropped
CoerceSkillsDict(kvs, cleaned) ==
    IF kvs = <<>> THEN cleaned
    ELSE LET e == Head(kvs)
         IN  CoerceSkillsDict(Tail(kvs),
                 CASE e.v.t = "list" -> DictPut(cleaned, e.k, JList(StrStripDropList(e.v.xs)))
                   [] e.v.t = "str" -> DictPut(cleaned, e.k, SplitSkills(e.v.s))
                   [] OTHER -> cleaned)

CategoryKey == <<"c", "a", "t", "e", "g", "o", "r", "y">>
SkillsKey == <<"s", "k", "i", "l", "l", "s">>
ItemsKey == <<"i", "t", "e", "m", "s">>
OtherText == <<"O", "t", "h", "e", "r">>

\* item.get("skills") or item.get("items") or ""
LegacyRaw(item) ==
    LET a == DictGetOr(item, SkillsKey, JNull)
        b == DictGetOr(item, ItemsKey, JNull)
    IN  IF Truthy(a) THEN a ELSE IF Truthy(b) THEN b ELSE JStr(<<>>)

RECURSIVE CoerceSkillsLegacy(_, _)
\* the loop over the legacy list of {category, skills} objects; an item that
\* is no mapping raises (AttributeError), a category that is no string gives
\* a key the field type rejects
CoerceSkillsLegacy(items, acc) ==
    IF items = <<>> THEN [ok |-> TRUE, v |-> acc]
    ELSE LET item == Head(items)
         IN  IF item.t # "dict" THEN [ok |-> FALSE, v |-> JNull]
             ELSE LET cat == DictGetOr(item, CategoryKey, JStr(OtherText))
                      raw == LegacyRaw(item)
                  IN  IF cat.t # "str" THEN [ok |-> FALSE, v |-> JNull]
                      ELSE CoerceSkillsLegacy(Tail(items),
                               DictPut(acc, cat.s,
                                   IF raw.t = "list" THEN raw ELSE SplitSkills(PyStr(raw))))

RECURSIVE CoerceSkillsFlat(_)
\* out.append(item.strip()) for the items that are strings
CoerceSkillsFlat(xs) ==
    IF xs = <<>> THEN <<>>
    ELSE IF Head(xs).t = "str"
         THEN <<JStr(Strip(Head(xs).s))>> \o CoerceSkillsFlat(Tail(xs))
         ELSE CoerceSkillsFlat(Tail(xs))

\* Resume.coerce_skills (mode="before"): [ok, v]; ok = FALSE when it raises
coerce_skills(v) ==
    CASE v.t = "null" -> [ok |-> TRUE, v |-> JList(<<>>)]
      [] v.t = "dict" -> [ok |-> TRUE, v |-> CoerceSkillsDict(v.kvs, JDict(<<>>))]
      [] v.t = "list" ->
            IF v.xs # <<>> /\ v.xs[1].t = "dict" /\ HasKey(v.xs[1], CategoryKey)
            THEN CoerceSkillsLegacy(v.xs, JDict(<<>>))
            ELSE [ok |-> TRUE, v |-> JList(CoerceSkillsFlat(v.xs))]
      [] v.t = "str" -> [ok |-> TRUE, v |-> SplitSkills(v.s)]
      [] OTHER -> [ok |-> TRUE, v |-> v]

IsStrList(v) == v.t = "list" /\ \A i \in 1..Len(v.xs) : v.xs[i].t = "str"

SkillsTypeUnchecked(v) == TRUE

\* the field type Union[Dict[str, List[str]], List[str]]
IsSkillsType(v) ==
    \/ IsStrList(v)
    \/ v.t = "dict" /\ \A i \in 1..Len(v.kvs) : IsStrList(v.kvs[i].v)

ValidateSkillsUnchecked(v) == TRUE

\* Resume.validate_skills: "if not v: raise ValueError"
validate_skills(v) == Truthy(v)

\* Resume.validate_experience: "if not v: raise ValueError"
validate_experience(v) == Truthy(v)

\* field names of the request JSON
K_id == <<"i", "d">>
K_name == <<"n", "a", "m", "e">>
K_personalInfo == <<"p", "e", "r", "s", "o", "n", "a", "l", "I", "n", "f", "o">>
K_email == <<"e", "m", "a", "i", "l">>
K_summary == <<"s", "u", "m", "m", "a", "r", "y">>
K_education == <<"e", "d", "u", "c", "a", "t", "i", "o", "n">>
K_experience == <<"e", "x", "p", "e", "r", "i", "e", "n", "c", "e">>
K_projects == <<"p", "r", "o", "j", "e", "c", "t", "s">>
K_certifications == <<"c", "e", "r", "t", "i", "f", "i", "c", "a", "t", "i", "o", "n", "s">>
K_company == <<"c", "o", "m", "p", "a", "n", "y">>
K_employer == <<"e", "m", "p", "l", "o", "y", "e", "r">>
K_position == <<"p", "o", "s", "i", "t", "i", "o", "n">>
K_role == <<"r", "o", "l", "e">>
K_startDate == <<"s", "t", "a", "r", "t", "D", "a", "t", "e">>
K_endDate == <<"e", "n", "d", "D", "a", "t", "e">>
K_description == <<"d", "e", "s", "c", "r", "i", "p", "t", "i", "o", "n">>
K_highlights == <<"h", "i", "g", "h", "l", "i", "g", "h", "t", "s">>
K_institution == <<"i", "n", "s", "t", "i", "t", "u", "t", "i", "o", "n">>
K_degree == <<"d", "e", "g", "r", "e", "e">>
K_issuer == <<"i", "s", "s", "u", "e", "r">>
K_date == <<"d", "a", "t", "e">>

K_experiences == <<"e", "x", "p", "e", "r", "i", "e", "n", "c", "e", "s">>
K_tailoredResume == <<"t", "a", "i", "l", "o", "r", "e", "d", "R", "e", "s", "u", "m", "e">>
K_matchedKeywords == <<"m", "a", "t", "c", "h", "e", "d", "K", "e", "y", "w", "o", "r", "d", "s">>
K_missingKeywords == <<"m", "i", "s", "s", "i", "n", "g", "K", "e", "y", "w", "o", "r", "d", "s">>

IsStr(v) == v.t = "str"
IsNonEmptyStr(v) == v.t = "str" /\ v.s # <<>>

\* validation_alias=AliasChoices(first, second): the first name present wins
AliasGet(d, first, second) ==
    IF HasKey(d, first) THEN DictGet(d, first) ELSE DictGetOr(d, second, Absent)

\* class Experience: company and position required with min_length=1, dates
\* required, description a list of strings with min_items=1
ExperienceValid(e) ==
    /\ e.t = "dict"
    /\ IsNonEmptyStr(AliasGet(e, K_company, K_employer))
    /\ IsNonEmptyStr(AliasGet(e, K_position, K_role))
    /\ IsStr(DictGetOr(e, K_startDate, Absent))
    /\ IsStr(DictGetOr(e, K_endDate, Absent))
    /\ IsStrList(DictGetOr(e, K_description, Absent))
    /\ DictGetOr(e, K_description, Absent).xs # <<>>

ExperienceOf(e) ==
    [company |-> AliasGet(e, K_company, K_employer).s,
     position |-> AliasGet(e, K_position, K_role).s,
     startDate |-> DictGet(e, K_startDate).s,
     endDate |-> DictGet(e, K_endDate).s,
     description |-> DictGet(e, K_description)]

\* class Project: name and description required (a list description is
\* joined by coerce_project_description, not modelled: inputs give strings),
\* highlights default to []
ProjectValid(p) ==
    /\ p.t = "dict"
    /\ IsNonEmptyStr(DictGetOr(p, K_name, Absent))
    /\ IsNonEmptyStr(DictGetOr(p, K_description, Absent))
    /\ IsStrList(DictGetOr(p, K_highlights, JList(<<>>)))

ProjectOf(p) ==
    [name |-> DictGet(p, K_name).s,
     description |-> DictGet(p, K_description).s,
     highlights |-> DictGetOr(p, K_highlights, JList(<<>>))]

\* class Education: institution and degree required (dates, gpa and
\* achievements are not read by any modelled operation)
EducationValid(e) ==
    /\ e.t = "dict"
    /\ IsNonEmptyStr(DictGetOr(e, K_institution, Absent))
    /\ IsNonEmptyStr(DictGetOr(e, K_degree, Absent))

EducationOf(e) ==
    [institution |-> DictGet(e, K_institution).s, degree |-> DictGet(e, K_degree).s]

\* class Certification: name, issuer and date required
CertificationValid(c) ==
    /\ c.t = "dict"
    /\ IsNonEmptyStr(DictGetOr(c, K_name, Absent))
    /\ IsNonEmptyStr(DictGetOr(c, K_issuer, Absent))
    /\ IsStr(DictGetOr(c, K_date, Absent))

CertificationOf(c) ==
    [name |-> DictGet(c, K_name).s, issuer |-> DictGet(c, K_issuer).s,
     date |-> DictGet(c, K_date).s]

\* class PersonalInfo: name required with min_length=1, email required
\* (its pattern is not modelled), summary optional
PersonalInfoValid(p) ==
    /\ p.t = "dict"
    /\ IsNonEmptyStr(DictGetOr(p, K_name, Absent))
    /\ IsNonEmptyStr(DictGetOr(p, K_email, Absent))
    /\ DictGetOr(p, K_summary, JNull).t \in {"null", "str"}

PersonalInfoOf(p) ==
    [name |-> DictGet(p, K_name).s, email |-> DictGet(p, K_email).s,
     summary |-> DictGetOr(p, K_summary, JNull)]

EntryValid(kind, e) ==
    CASE kind = "Education" -> EducationValid(e)
      [] kind = "Experience" -> ExperienceValid(e)
      [] kind = "Project" -> ProjectValid(e)
      [] kind = "Certification" -> CertificationValid(e)

EntryOf(kind, e) ==
    CASE kind = "Education" -> EducationOf(e)
      [] kind = "Experience" -> ExperienceOf(e)
      [] kind = "Project" -> ProjectOf(e)
      [] kind = "Certification" -> CertificationOf(e)

\* a List[...] field with default_factory=list: an absent field takes the
\* default and no validator runs on it
ListFieldValid(d, key, kind) ==
    \/ ~HasKey(d, key)
    \/ /\ DictGet(d, key).t = "list"
       /\ \A i \in 1..Len(DictGet(d, key).xs) : EntryValid(kind, DictGet(d, key).xs[i])

ListFieldOf(d, key, kind) ==
    IF ~HasKey(d, key) THEN <<>>
    ELSE [i \in 1..Len(DictGet(d, key).xs) |-> EntryOf(kind, DictGet(d, key).xs[i])]

\* field "skills": the before-validator, the field type, then validate_skills;
\* an absent field takes default_factory=list without validation
SkillsFieldValid(d) ==
    \/ ~HasKey(d, SkillsKey)
    \/ LET c == coerce_skills(DictGet(d, SkillsKey))
       IN  c.ok /\ IsSkillsType(c.v) /\ validate_skills(c.v)

SkillsFieldOf(d) ==
    IF ~HasKey(d, SkillsKey) THEN JList(<<>>) ELSE coerce_skills(DictGet(d, SkillsKey)).v

\* field "experience": List[Experience], then validate_experience
ExperienceFieldValid(d) ==
    \/ ~HasKey(d, K_experience)
    \/ /\ ListFieldValid(d, K_experience, "Experience")
       /\ validate_experience(DictGet(d, K_experience))

\* the names of the fields Resume(**data) reports as invalid
ResumeErrors(d) ==
    {f \in {"id", "name", "personalInfo", "education", "experience", "skills",
            "projects", "certifications"} :
        CASE f = "id" -> ~IsNonEmptyStr(DictGetOr(d, K_id, Absent))
          [] f = "name" -> ~IsNonEmptyStr(DictGetOr(d, K_name, Absent))
          [] f = "personalInfo" -> ~PersonalInfoValid(DictGetOr(d, K_personalInfo, Absent))
          [] f = "education" -> ~ListFieldValid(d, K_education, "Education")
          [] f = "experience" -> ~ExperienceFieldValid(d)
          [] f = "skills" -> ~SkillsFieldValid(d)
          [] f = "projects" -> ~ListFieldValid(d, K_projects, "Project")
          [] f = "certifications" -> ~ListFieldValid(d, K_certifications, "Certification")}

\* the Resume object that Resume(**data) constructs from valid data
ResumeOf(d) ==
    [id |-> DictGet(d, K_id).s,
     name |-> DictGet(d, K_name).s,
     personalInfo |-> PersonalInfoOf(DictGet(d, K_personalInfo)),
     education |-> ListFieldOf(d, K_education, "Education"),
     experience |-> ListFieldOf(d, K_experience, "Experience"),
     skills |-> SkillsFieldOf(d),
     projects |-> ListFieldOf(d, K_projects, "Project"),
     certifications |-> ListFieldOf(d, K_certifications, "Certification")]

\* Resume(**data): [ok, errors, resume]; ok = FALSE is pydantic's ValidationError
ValidateResume(d) ==
    LET errs == ResumeErrors(d)
    IN  [ok |-> errs = {}, errors |-> errs,
         resume |-> IF errs = {} THEN ResumeOf(d) ELSE JNull]

(***************************************************************************)
(* The object heap.  A Resume and its parts are Python objects: a cell has *)
(* a kind, its plain (immutable) fields in data, and the addresses of the  *)
(* mutable objects it refers to in refs.  A heap is a sequence of cells;   *)
(* an address is an index into it.                                         *)
(***************************************************************************)
NoRefs == <<>>

JsonCell(v) == [kind |-> "json", data |-> v, refs |-> NoRefs]

\* the field of an entry that holds a list object of its own
NestedField(kind) ==
    CASE kind = "Experience" -> {"description"}
      [] kind = "Project" -> {"highlights"}
      [] OTHER -> {}

\* one entry object (Experience, Project, Education, Certification) and the
\* list object it owns: [heap, ref]
AllocEntry(h, kind, e) ==
    LET nested == NestedField(kind)
        plain == [f \in (DOMAIN e) \ nested |-> e[f]]
    IN  IF nested = {}
        THEN [heap |-> Append(h, [kind |-> kind, data |-> plain, refs |-> NoRefs]),
              ref |-> Len(h) + 1]
        ELSE LET nf == CHOOSE f \in nested : TRUE
             IN  [heap |-> h \o <<JsonCell(e[nf]),
                                  [kind |-> kind, data |-> plain,
                                   refs |-> [f \in nested |-> Len(h) + 1]]>>,
                  ref |-> Len(h) + 2]

RECURSIVE AllocEntries(_, _, _, _)
\* the entries of a list field, then the list object itself: [heap, ref]
AllocEntries(h, kind, entries, refs) ==
    IF entries = <<>>
    THEN [heap |-> Append(h, [kind |-> "list", data |-> kind, refs |-> refs]),
          ref |-> Len(h) + 1]
    ELSE LET a == AllocEntry(h, kind, Head(entries))
         IN  AllocEntries(a.heap, kind, Tail(entries), Append(refs, a.ref))

\* the objects of a validated Resume: [heap, ref], ref the Resume object
AllocResume(h, r) ==
    LET pi == [heap |-> Append(h, [kind |-> "PersonalInfo", data |-> r.personalInfo,
                                   refs |-> NoRefs]),
               ref |-> Len(h) + 1]
        ed == AllocEntries(pi.heap, "Education", r.education, <<>>)
        ex == AllocEntries(ed.heap, "Experience", r.experience, <<>>)
        sk == [heap |-> Append(ex.heap, JsonCell(r.skills)), ref |-> Len(ex.heap) + 1]
        pr == AllocEntries(sk.heap, "Project", r.projects, <<>>)
        ce == AllocEntries(pr.heap, "Certification", r.certifications, <<>>)
    IN  [heap |-> Append(ce.heap,
                     [kind |-> "Resume",
                      data |-> [id |-> r.id, name |-> r.name],
                      refs |-> [personalInfo |-> pi.ref, education |-> ed.ref,
                                experience |-> ex.ref, skills |-> sk.ref,
                                projects |-> pr.ref, certifications |-> ce.ref]]),
         ref |-> Len(ce.heap) + 1]

RefsOf(cell) == {cell.refs[k] : k \in DOMAIN cell.refs}

RECURSIVE ReachableFrom(_, _)
\* the addresses of the objects reachable from the addresses in seen
ReachableFrom(h, seen) ==
    LET next == seen \cup UNION {RefsOf(h[a]) : a \in seen}
    IN  IF next = seen THEN seen ELSE ReachableFrom(h, next)

Reachable(h, root) == ReachableFrom(h, {root})

\* the value of an entry object: its plain fields and its list's content
EntryValue(h, a) ==
    h[a].data @@ [f \in DOMAIN h[a].refs |-> h[h[a].refs[f]].data]

ListValue(h, a) == [i \in 1..Len(h[a].refs) |-> EntryValue(h, h[a].refs[i])]

\* the value of the Resume object at root (what model_dump would show)
ResumeValue(h, root) ==
    LET c == h[root]
    IN  [id |-> c.data.id,
         name |-> c.data.name,
         personalInfo |-> h[c.refs.personalInfo].data,
         education |-> ListValue(h, c.refs.education),
         experience |-> ListValue(h, c.refs.experience),
         skills |-> h[c.refs.skills].data,
         projects |-> ListValue(h, c.refs.projects),
         certifications |-> ListValue(h, c.refs.certifications)]

\* model_copy() without deep=True: a new Resume object over the same parts
ModelCopyShallow(h, root) ==
    [heap |-> Append(h, h[root]), ref |-> Len(h) + 1]

\* original.model_copy(deep=True): every object reachable from root is copied
\* to a fresh address: [heap, ref]
ModelCopyDeep(h, root) ==
    LET R == Reachable(h, root)
        n == Cardinality(R)
        to == [a \in R |-> Len(h) + Cardinality({b \in R : b <= a})]
        from == [i \in 1..n |-> CHOOSE a \in R : to[a] = Len(h) + i]
        copy(cell) == [cell EXCEPT !.refs = [k \in DOMAIN cell.refs |-> to[cell.refs[k]]]]
    IN  [heap |-> h \o [i \in 1..n |-> copy(h[from[i]])], ref |-> to[root]]

(***************************************************************************)
(* services/gemini.py: GeminiService._merge_tailored_content               *)
(***************************************************************************)
IsSubstring(key, s) ==
    \E i \in 1..(Len(s) - Len(key) + 1) : SubSeq(s, i, i + Len(key) - 1) = key

\* key in obj: [raised, v]; None and numbers are not containers (TypeError)
PyIn(obj, key) ==
    CASE obj.t = "dict" -> [raised |-> FALSE, v |-> HasKey(obj, key)]
      [] obj.t = "list" ->
            [raised |-> FALSE, v |-> \E i \in 1..Len(obj.xs) : obj.xs[i] = JStr(key)]
      [] obj.t = "str" -> [raised |-> FALSE, v |-> IsSubstring(key, obj.s)]
      [] OTHER -> [raised |-> TRUE, v |-> FALSE]

\* obj[key] for a string key: [raised, v]; KeyError on a mapping without the
\* key, TypeError on anything that is no mapping
PyIndex(obj, key) ==
    IF obj.t = "dict" /\ HasKey(obj, key)
    THEN [raised |-> FALSE, v |-> DictGet(obj, key)]
    ELSE [raised |-> TRUE, v |-> JNull]

\* iter(obj): [raised, xs]; a mapping yields its keys, a string its characters
PyIter(obj) ==
    CASE obj.t = "list" -> [raised |-> FALSE, xs |-> obj.xs]
      [] obj.t = "dict" ->
            [raised |-> FALSE, xs |-> [i \in 1..Len(obj.kvs) |-> JStr(obj.kvs[i].k)]]
      [] obj.t = "str" ->
            [raised |-> FALSE, xs |-> [i \in 1..Len(obj.s) |-> JStr(<<obj.s[i]>>)]]
      [] OTHER -> [raised |-> TRUE, xs |-> <<>>]

Hashable(v) == v.t \notin {"list", "dict"}

\* a dict under construction, key -> address of the value object
MapHas(m, key) == \E i \in 1..Len(m) : m[i].k = key
MapGet(m, key) == m[CHOOSE i \in 1..Len(m) : m[i].k = key].ref
MapPutKeepFirst(m, key, ref) ==
    IF MapHas(m, key) THEN m ELSE Append(m, [k |-> key, ref |-> ref])

\* d[key] = value: a key the dict has keeps its place and takes the value
MapPut(m, key, ref) ==
    IF MapHas(m, key)
    THEN [i \in 1..Len(m) |-> IF m[i].k = key THEN [k |-> key, ref |-> ref] ELSE m[i]]
    ELSE Append(m, [k |-> key, ref |-> ref])

Raised(h) == [raised |-> TRUE, heap |-> h]
Returned(h) == [raised |-> FALSE, heap |-> h]

\* [line.strip() for line in text.split('\n') if line.strip()]
SplitLines(text) ==
    LET parts == SplitStripDrop(text, {"\n"})
    IN  JList([i \in 1..Len(parts) |-> JStr(parts[i])])

\* lines 452-454: the summary
MergeSummary(h, enhanced, tailored) ==
    LET has == PyIn(tailored, K_summary)
        val == PyIndex(tailored, K_summary)
        pi == h[enhanced].refs.personalInfo
    IN  IF has.raised THEN Raised(h)
        ELSE IF ~has.v THEN Returned(h)
        ELSE IF val.raised THEN Raised(h)
        ELSE IF Truthy(val.v)
             THEN Returned([h EXCEPT ![pi].data.summary = val.v])
             ELSE Returned(h)

RECURSIVE TailoredMap(_, _, _, _, _)
\* {e[keyField]: <value of e> for e in items}: [raised, heap, map]; the value
\* objects of the AI result get addresses as they are read.  withDefault:
\* e.get(valField, []) in place of e[valField]
TailoredMap(h, items, keyField, valField, withDefault) ==
    IF items = <<>> THEN [raised |-> FALSE, heap |-> h, map |-> <<>>]
    ELSE LET e == items[Len(items)]
             rest == TailoredMap(h, SubSeq(items, 1, Len(items) - 1),
                                 keyField, valField, withDefault)
             key == PyIndex(e, keyField)
             val == IF withDefault /\ e.t = "dict"
                    THEN [raised |-> FALSE, v |-> DictGetOr(e, valField, JList(<<>>))]
                    ELSE PyIndex(e, valField)
         IN  IF rest.raised \/ key.raised \/ val.raised \/ ~Hashable(key.v)
             THEN [raised |-> TRUE, heap |-> rest.heap, map |-> <<>>]
             ELSE [raised |-> FALSE,
                   heap |-> Append(rest.heap, JsonCell(val.v)),
                   map |-> MapPut(rest.map, key.v, Len(rest.heap) + 1)]

RECURSIVE AssignLists(_, _, _, _, _, _)
\* the loop "for obj in enhanced.<list>": an object whose key is in the map
\* gets the mapped value as its list field, a string value split into lines;
\* requireTruthy is the "and tailored_projs[proj.name]" test of line 473
AssignLists(h, objs, keyName, field, map, requireTruthy) ==
    IF objs = <<>> THEN h
    ELSE LET o == Head(objs)
             key == JStr(h[o].data[keyName])
             val == h[MapGet(map, key)].data
             h2 == IF ~MapHas(map, key) \/ (requireTruthy /\ ~Truthy(val)) THEN h
                   ELSE IF val.t = "str"
                        THEN [Append(h, JsonCell(SplitLines(val.s)))
                                 EXCEPT ![o].refs[field] = Len(h) + 1]
                   ELSE IF val.t = "list"
                        THEN [h EXCEPT ![o].refs[field] = MapGet(map, key)]
                   ELSE h
         IN  AssignLists(h2, Tail(objs), keyName, field, map, requireTruthy)

\* the loop of lines 459-467 without the "if exp.company in tailored_exps"
\* test: every experience takes the first description the AI result gives
MergeExperiencesAnyCompany(h, enhanced, tailored) ==
    LET has == PyIn(tailored, K_experiences)
        val == PyIndex(tailored, K_experiences)
        it == PyIter(val.v)
        m == TailoredMap(h, it.xs, K_company, K_description, FALSE)
        objs == h[h[enhanced].refs.experience].refs
        every == [i \in 1..Len(objs) |->
                     [k |-> JStr(h[objs[i]].data.company), ref |-> m.map[1].ref]]
    IN  IF has.raised THEN Raised(h)
        ELSE IF ~has.v THEN Returned(h)
        ELSE IF val.raised \/ it.raised THEN Raised(h)
        ELSE IF m.raised THEN Raised(m.heap)
        ELSE IF m.map = <<>> THEN Returned(m.heap)
        ELSE Returned(AssignLists(m.heap, objs, "company", "description", every, FALSE))

\* lines 456-467: experience descriptions, matched by company name
MergeExperiences(h, enhanced, tailored) ==
    LET has == PyIn(tailored, K_experiences)
        val == PyIndex(tailored, K_experiences)
        it == PyIter(val.v)
        m == TailoredMap(h, it.xs, K_company, K_description, FALSE)
    IN  IF has.raised THEN Raised(h)
        ELSE IF ~has.v THEN Returned(h)
        ELSE IF val.raised \/ it.raised THEN Raised(h)
        ELSE IF m.raised THEN Raised(m.heap)
        ELSE Returned(AssignLists(m.heap, h[h[enhanced].refs.experience].refs,
                                  "company", "description", m.map, FALSE))

\* lines 469-479: project highlights, matched by project name
MergeProjects(h, enhanced, tailored) ==
    LET has == PyIn(tailored, K_projects)
        val == PyIndex(tailored, K_projects)
        it == PyIter(val.v)
        m == TailoredMap(h, it.xs, K_name, K_highlights, TRUE)
    IN  IF has.raised THEN Raised(h)
        ELSE IF ~has.v THEN Returned(h)
        ELSE IF val.raised \/ it.raised THEN Raised(h)
        ELSE IF m.raised THEN Raised(m.heap)
        ELSE Returned(AssignLists(m.heap, h[h[enhanced].refs.projects].refs,
                                  "name", "highlights", m.map, TRUE))

\* lines 481-483: the skills
MergeSkills(h, enhanced, tailored) ==
    LET has == PyIn(tailored, SkillsKey)
        val == PyIndex(tailored, SkillsKey)
    IN  IF has.raised THEN Raised(h)
        ELSE IF ~has.v THEN Returned(h)
        ELSE IF val.raised THEN Raised(h)
        ELSE IF Truthy(val.v)
             THEN Returned([Append(h, JsonCell(val.v))
                               EXCEPT ![enhanced].refs.skills = Len(h) + 1])
             ELSE Returned(h)

\* line 450
CopyOriginal(h, original) == ModelCopyDeep(h, original)

\* _merge_tailored_content(original, tailored): [raised, heap, enhanced];
\* the statements run in order and an exception skips the rest
merge_tailored_content(h, original, tailored) ==
    LET c == CopyOriginal(h, original)
        s1 == MergeSummary(c.heap, c.ref, tailored)
        s2 == IF s1.raised THEN s1 ELSE MergeExperiences(s1.heap, c.ref, tailored)
        s3 == IF s2.raised THEN s2 ELSE MergeProjects(s2.heap, c.ref, tailored)
        s4 == IF s3.raised THEN s3 ELSE MergeSkills(s3.heap, c.ref, tailored)
    IN  [raised |-> s4.raised, heap |-> s4.heap, enhanced |-> c.ref]

(***************************************************************************)
(* json.loads on the texts of the model: objects, arrays, strings with the *)
(* escapes \" \\ \/ \n \t \r, integers without sign, true, false, null.    *)
(* A result is [ok, v, i]: i is the position after the value.              *)
(***************************************************************************)
JsonWS == {" ", "\t", "\n", "\r"}
Digits == {"0", "1", "2", "3", "4", "5", "6", "7", "8", "9"}
Quote == "\""
Backslash == "\\"

DigitVal(c) ==
    CASE c = "0" -> 0 [] c = "1" -> 1 [] c = "2" -> 2 [] c = "3" -> 3
      [] c = "4" -> 4 [] c = "5" -> 5 [] c = "6" -> 6 [] c = "7" -> 7
      [] c = "8" -> 8 [] c = "9" -> 9

Unescape(c) ==
    CASE c = "n" -> "\n" [] c = "t" -> "\t" [] c = "r" -> "\r" [] OTHER -> c

ParseFail == [ok |-> FALSE, v |-> JNull, i |-> 0]
ParseOk(v, i) == [ok |-> TRUE, v |-> v, i |-> i]

RECURSIVE SkipWS(_, _)
SkipWS(s, i) == IF i <= Len(s) /\ s[i] \in JsonWS THEN SkipWS(s, i + 1) ELSE i

StartsWithAt(s, i, p) ==
    i + Len(p) - 1 <= Len(s) /\ SubSeq(s, i, i + Len(p) - 1) = p

TrueText == <<"t", "r", "u", "e">>
FalseText == <<"f", "a", "l", "s", "e">>
NullText == <<"n", "u", "l", "l">>

RECURSIVE ScanString(_, _, _)
\* the body of a string, from the position after the opening quote; strict
\* mode: a raw control character ends the parse with an error
ScanString(s, i, acc) ==
    IF i > Len(s) THEN ParseFail
    ELSE IF s[i] = Quote THEN ParseOk(JStr(acc), i + 1)
    ELSE IF s[i] = Backslash
         THEN IF i + 1 <= Len(s) /\ s[i + 1] \in {Quote, Backslash, "/", "n", "t", "r"}
              THEN ScanString(s, i + 2, Append(acc, Unescape(s[i + 1])))
              ELSE ParseFail
    ELSE IF s[i] \in {"\n", "\t", "\r"} THEN ParseFail
    ELSE ScanString(s, i + 1, Append(acc, s[i]))

RECURSIVE ScanDigits(_, _, _)
ScanDigits(s, i, n) ==
    IF i <= Len(s) /\ s[i] \in Digits
    THEN ScanDigits(s, i + 1, 10 * n + DigitVal(s[i]))
    ELSE ParseOk(JNum(n), i)

\* int: "0" or a digit 1-9 followed by digits
ScanNumber(s, i) ==
    IF s[i] = "0" THEN ParseOk(JNum(0), i + 1) ELSE ScanDigits(s, i, 0)

RECURSIVE ParseValue(_, _)
RECURSIVE ParseMembers(_, _, _)
RECURSIVE ParseElements(_, _, _)

\* one "key": value pair and what follows it, from the key's opening quote
ParseMembers(s, i, d) ==
    IF i > Len(s) \/ s[i] # Quote THEN ParseFail
    ELSE LET key == ScanString(s, i + 1, <<>>)
             colon == SkipWS(s, key.i)
         IN  IF ~key.ok \/ colon > Len(s) \/ s[colon] # ":" THEN ParseFail
             ELSE LET val == ParseValue(s, SkipWS(s, colon + 1))
                      next == SkipWS(s, val.i)
                      d2 == DictPut(d, key.v.s, val.v)
                  IN  IF ~val.ok \/ next > Len(s) THEN ParseFail
                      ELSE IF s[next] = "}" THEN ParseOk(d2, next + 1)
                      ELSE IF s[next] = ","
                           THEN ParseMembers(s, SkipWS(s, next + 1), d2)
                      ELSE ParseFail

\* one array element and what follows it
ParseElements(s, i, xs) ==
    LET val == ParseValue(s, i)
        next == SkipWS(s, val.i)
    IN  IF ~val.ok \/ next > Len(s) THEN ParseFail
        ELSE IF s[next] = "]" THEN ParseOk(JList(Append(xs, val.v)), next + 1)
        ELSE IF s[next] = ","
             THEN ParseElements(s, SkipWS(s, next + 1), Append(xs, val.v))
        ELSE ParseFail

ParseValue(s, i) ==
    IF i > Len(s) THEN ParseFail
    ELSE IF s[i] = Quote THEN ScanString(s, i + 1, <<>>)
    ELSE IF s[i] = "{"
         THEN LET j == SkipWS(s, i + 1)
              IN  IF j <= Len(s) /\ s[j] = "}" THEN ParseOk(JDict(<<>>), j + 1)
                  ELSE ParseMembers(s, j, JDict(<<>>))
    ELSE IF s[i] = "["
         THEN LET j == SkipWS(s, i + 1)
              IN  IF j <= Len(s) /\ s[j] = "]" THEN ParseOk(JList(<<>>), j + 1)
                  ELSE ParseElements(s, j, <<>>)
    ELSE IF s[i] \in Digits THEN ScanNumber(s, i)
    ELSE IF StartsWithAt(s, i, TrueText) THEN ParseOk(JBool(TRUE), i + 4)
    ELSE IF StartsWithAt(s, i, FalseText) THEN ParseOk(JBool(FALSE), i + 5)
    ELSE IF StartsWithAt(s, i, NullText) THEN ParseOk(JNull, i + 4)
    ELSE ParseFail

\* json.loads(s): [ok, v]; ok = FALSE stands for json.JSONDecodeError
\* (no value, or extra data after the value)
JsonLoads(s) ==
    LET r == ParseValue(s, SkipWS(s, 1))
    IN  IF r.ok /\ SkipWS(s, r.i) > Len(s)
        THEN [ok |-> TRUE, v |-> r.v]
        ELSE [ok |-> FALSE, v |-> JNull]

(***************************************************************************)
(* services/gemini.py: _parse_json_response                                *)
(***************************************************************************)
StartsWith(s, p) == Len(s) >= Len(p) /\ SubSeq(s, 1, Len(p)) = p
EndsWith(s, p) == Len(s) >= Len(p) /\ SubSeq(s, Len(s) - Len(p) + 1, Len(s)) = p

\* a TLA+ string cannot hold the grave accent (U+0060); the texts of the
\* model write it as this character, which they use for nothing else
Grave == "^"
Fence == <<Grave, Grave, Grave>>
FenceJson == Fence \o <<"j", "s", "o", "n">>

\* lines 274-281 and 310-317: strip, drop a leading fence with or without
\* the word json, drop a trailing fence, strip
StripFences(text) ==
    LET c0 == Strip(text)
        c1 == IF StartsWith(c0, FenceJson) THEN SubSeq(c0, 8, Len(c0)) ELSE c0
        c2 == IF StartsWith(c1, Fence) THEN SubSeq(c1, 4, Len(c1)) ELSE c1
        c3 == IF EndsWith(c2, Fence) THEN SubSeq(c2, 1, Len(c2) - 3) ELSE c2
    IN  Strip(c3)

\* s.count(c)
CountChar(s, c) == Cardinality({i \in 1..Len(s) : s[i] = c})

\* len(re.findall(r'(?<!\\)"', s))
UnescapedQuoteCount(s) ==
    Cardinality({i \in 1..Len(s) : s[i] = Quote /\ (i = 1 \/ s[i - 1] # Backslash)})

\* c * n
Repeat(c, n) == [i \in 1..n |-> c]

\* lines 321-323
CloseQuote(s) == IF UnescapedQuoteCount(s) % 2 = 1 THEN Append(s, Quote) ELSE s

\* lines 327-339: the four counts are taken before anything is appended
CloseBrackets(s) ==
    LET braces == CountChar(s, "{") - CountChar(s, "}")
        brackets == CountChar(s, "[") - CountChar(s, "]")
    IN  s \o (IF braces > 0 THEN Repeat("}", braces) ELSE <<>>)
          \o (IF brackets > 0 THEN Repeat("]", brackets) ELSE <<>>)

\* the positions where r",\s*(\}|\])" matches: a comma, then whitespace, then
\* a closer
CommaMatches(s) ==
    {i \in 1..Len(s) : /\ s[i] = ","
                       /\ SkipWS(s, i + 1) <= Len(s)
                       /\ s[SkipWS(s, i + 1)] \in {"}", "]"}}

RECURSIVE DropCommasBeforeClosers(_, _)
\* re.sub(r",\s*(\}|\])", r"\1", s), scanning from position i: each match
\* is replaced by its closer
DropCommasBeforeClosers(s, i) ==
    LET ms == {m \in CommaMatches(s) : m >= i}
    IN  IF ms = {} THEN SubSeq(s, i, Len(s))
        ELSE LET m == CHOOSE m \in ms : \A n \in ms : m <= n
             IN  SubSeq(s, i, m - 1) \o DropCommasBeforeClosers(s, SkipWS(s, m + 1))

\* lines 346-348
DropDanglingComma(s) ==
    IF EndsWith(RStrip(s), <<",">>)
    THEN SubSeq(RStrip(s), 1, Len(RStrip(s)) - 1)
    ELSE s

\* lines 310-348
RepairJson(text) ==
    DropDanglingComma(DropCommasBeforeClosers(CloseBrackets(CloseQuote(StripFences(text))), 1))

\* _parse_json_response(text): [raised, v].  v = JNull is the None the
\* function returns when the repair fails.  list(parsed.keys()) at line 294
\* is evaluated for the log call: a value that is no dict raises
\* AttributeError, which "except json.JSONDecodeError" does not catch.
parse_json_response(text) ==
    LET first == JsonLoads(StripFences(text))
        second == JsonLoads(RepairJson(text))
    IN  IF first.ok
        THEN IF first.v.t = "dict"
             THEN [raised |-> FALSE, v |-> first.v]
             ELSE [raised |-> TRUE, v |-> JNull]
        ELSE IF second.ok
             THEN [raised |-> FALSE, v |-> second.v]
             ELSE [raised |-> FALSE, v |-> JNull]

(***************************************************************************)
(* json.dumps, used to write the upstream texts of the model               *)
(***************************************************************************)
RECURSIVE EscapeChars(_)
EscapeChars(s) ==
    IF s = <<>> THEN <<>>
    ELSE (CASE Head(s) = Quote -> <<Backslash, Quote>>
            [] Head(s) = Backslash -> <<Backslash, Backslash>>
            [] Head(s) = "\n" -> <<Backslash, "n">>
            [] OTHER -> <<Head(s)>>) \o EscapeChars(Tail(s))

DigitChar(n) ==
    CASE n = 0 -> "0" [] n = 1 -> "1" [] n = 2 -> "2" [] n = 3 -> "3"
      [] n = 4 -> "4" [] n = 5 -> "5" [] n = 6 -> "6" [] n = 7 -> "7"
      [] n = 8 -> "8" [] n = 9 -> "9"

RECURSIVE DigitsOf(_)
DigitsOf(n) == IF n < 10 THEN <<DigitChar(n)>> ELSE Append(DigitsOf(n \div 10), DigitChar(n % 10))

RECURSIVE Dumps(_)
RECURSIVE DumpsItems(_)
RECURSIVE DumpsPairs(_)

DumpsItems(xs) ==
    IF xs = <<>> THEN <<>>
    ELSE Dumps(Head(xs)) \o (IF Len(xs) > 1 THEN <<",", " ">> ELSE <<>>) \o DumpsItems(Tail(xs))

DumpsPairs(kvs) ==
    IF kvs = <<>> THEN <<>>
    ELSE <<Quote>> \o EscapeChars(Head(kvs).k) \o <<Quote, ":", " ">> \o Dumps(Head(kvs).v)
         \o (IF Len(kvs) > 1 THEN <<",", " ">> ELSE <<>>) \o DumpsPairs(Tail(kvs))

Dumps(v) ==
    CASE v.t = "str" -> <<Quote>> \o EscapeChars(v.s) \o <<Quote>>
      [] v.t = "num" -> DigitsOf(v.n)
      [] v.t = "bool" -> IF v.b THEN TrueText ELSE FalseText
      [] v.t = "list" -> <<"[">> \o DumpsItems(v.xs) \o <<"]">>
      [] v.t = "dict" -> <<"{">> \o DumpsPairs(v.kvs) \o <<"}">>
      [] OTHER -> NullText

(***************************************************************************)
(* services/gemini.py: _extract_minimal_resume, _calculate_ats_score, and  *)
(* the TailorResponse that tailor_resume builds                            *)
(***************************************************************************)
K_suggestions == <<"s", "u", "g", "g", "e", "s", "t", "i", "o", "n", "s">>
K_changes == <<"c", "h", "a", "n", "g", "e", "s">>
PrimarySkills == <<"P", "r", "i", "m", "a", "r", "y", " ", "S", "k", "i", "l", "l", "s">>
SkillsSetPrefix == <<"S", "k", "i", "l", "l", "s", " ", "S", "e", "t", " ">>
chunk_size == 6

Min(a, b) == IF a < b THEN a ELSE b

ChunkCategoryNotNumbered(i) ==
    IF i = 0 THEN PrimarySkills ELSE SkillsSetPrefix \o DigitsOf(2)

\* "Primary Skills" if i == 0 else f"Skills Set {i // chunk_size + 1}"
ChunkCategory(i) ==
    IF i = 0 THEN PrimarySkills ELSE SkillsSetPrefix \o DigitsOf(i \div chunk_size + 1)

RECURSIVE ChunkSkills(_, _, _)
\* lines 410-415: for i in range(0, len(skills), chunk_size)
ChunkSkills(skills, i, d) ==
    IF i >= Len(skills) THEN d
    ELSE ChunkSkills(skills, i + chunk_size,
             DictPut(d, ChunkCategory(i),
                     JList(SubSeq(skills, i + 1, Min(i + chunk_size, Len(skills))))))

\* _extract_minimal_resume(resume), for the value r of a Resume object
extract_minimal_resume(r) ==
    LET skills == IF r.skills.t = "list" THEN ChunkSkills(r.skills.xs, 0, JDict(<<>>))
                  ELSE r.skills
        exps == [i \in 1..Len(r.experience) |->
                    JDict(<<[k |-> K_company, v |-> JStr(r.experience[i].company)],
                            [k |-> K_description, v |-> r.experience[i].description]>>)]
        projs == [i \in 1..Len(r.projects) |->
                    JDict(<<[k |-> K_name, v |-> JStr(r.projects[i].name)],
                            [k |-> K_highlights,
                             v |-> IF Truthy(r.projects[i].highlights)
                                   THEN r.projects[i].highlights
                                   ELSE JList(<<JStr(r.projects[i].description)>>)]>>)]
    IN  JDict(<<[k |-> K_summary,
                 v |-> IF Truthy(r.personalInfo.summary) THEN r.personalInfo.summary
                       ELSE JStr(<<>>)],
                [k |-> K_experiences, v |-> JList(exps)],
                [k |-> K_projects, v |-> JList(projs)],
                [k |-> SkillsKey, v |-> IF skills.t = "dict" THEN skills ELSE JDict(<<>>)]>>)

\* len(v): [raised, n]; TypeError for None, numbers and booleans
PyLen(v) ==
    CASE v.t = "list" -> [raised |-> FALSE, n |-> Len(v.xs)]
      [] v.t = "str" -> [raised |-> FALSE, n |-> Len(v.s)]
      [] v.t = "dict" -> [raised |-> FALSE, n |-> Len(v.kvs)]
      [] OTHER -> [raised |-> TRUE, n |-> 0]

\* (matched / total) * 100 is computed in binary floating point.  For the
\* counts with total <= 200 the product is the exact value rounded to a
\* double, and int() of it is the integer quotient, but for eight pairs whose
\* exact value is a whole number n the product is the double just below n,
\* which int() truncates to n - 1 (29/50*100 is 57.99999999999999).
FloatShortfall(matched, total) ==
    IF <<matched, total>> \in {<<29, 50>>, <<29, 100>>, <<57, 100>>, <<58, 100>>,
                               <<87, 150>>, <<58, 200>>, <<114, 200>>, <<116, 200>>}
    THEN 1 ELSE 0

ScorePerMille(matched, total) == (matched * 1000) \div total

\* max(0, min(100, int((matched / total) * 100))) for counts
ScoreOfCounts(matched, total) ==
    LET score == (matched * 100) \div total - FloatShortfall(matched, total)
    IN  IF score < 0 THEN 0 ELSE IF score > 100 THEN 100 ELSE score

\* _calculate_ats_score(matched, missing): [raised, score]
calculate_ats_score(matched, missing) ==
    IF ~Truthy(matched) /\ ~Truthy(missing) THEN [raised |-> FALSE, score |-> 75]
    ELSE IF PyLen(matched).raised \/ PyLen(missing).raised
         THEN [raised |-> TRUE, score |-> 0]
    ELSE IF PyLen(matched).n + PyLen(missing).n = 0 THEN [raised |-> FALSE, score |-> 75]
    ELSE [raised |-> FALSE,
          score |-> ScoreOfCounts(PyLen(matched).n, PyLen(matched).n + PyLen(missing).n)]

\* lines 553-563: TailorResponse(...): [raised, response].  The four keyword
\* and text fields are List[str]; the Resume instance is taken as it is.
BuildTailorResponse(enhanced, result) ==
    LET matched == DictGetOr(result, K_matchedKeywords, JList(<<>>))
        missing == DictGetOr(result, K_missingKeywords, JList(<<>>))
        suggestions == DictGetOr(result, K_suggestions, JList(<<>>))
        changes == DictGetOr(result, K_changes, JList(<<>>))
        score == calculate_ats_score(matched, missing)
    IN  IF score.raised \/ ~IsStrList(matched) \/ ~IsStrList(missing)
           \/ ~IsStrList(suggestions) \/ ~IsStrList(changes)
        THEN [raised |-> TRUE, response |-> JNull]
        ELSE [raised |-> FALSE,
              response |-> [tailoredResume |-> enhanced, atsScore |-> score.score,
                            matchedKeywords |-> matched, missingKeywords |-> missing]]

(***************************************************************************)
(* Sample data                                                             *)
(***************************************************************************)
Go == <<"G", "o">>
Py == <<"P", "y">>
Backend == <<"B", "E">>
Acme == <<"A", "c">>
Bolt == <<"B", "o">>
Dev == <<"D", "e", "v">>
Y2020 == <<"2", "0">>
Y2021 == <<"2", "1">>
BulletA == <<"a">>
BulletB == <<"b">>
BulletC == <<"c">>

Entry(k, v) == [k |-> k, v |-> v]
StrList(ss) == JList([i \in 1..Len(ss) |-> JStr(ss[i])])

\* a raw experience entry of a request
RawExperience(company, bullets) ==
    JDict(<<Entry(K_company, JStr(company)), Entry(K_position, JStr(Dev)),
            Entry(K_startDate, JStr(Y2020)), Entry(K_endDate, JStr(Y2021)),
            Entry(K_description, StrList(bullets))>>)

\* values a request may give as "skills"
SkillsInputs ==
    << JList(<<>>),
       JStr(<<>>),
       JNull,
       JDict(<<>>),
       StrList(<<Go, Py>>),
       JDict(<<Entry(Backend, StrList(<<Go>>))>>),
       JStr(<<",", ";", " ", "\n">>),
       JStr(<<"G", "o", ",", " ", "P", "y">>),
       JDict(<<Entry(Backend, JList(<<>>))>>),
       StrList(<<<<" ">>>>),
       JDict(<<Entry(Backend, JNull)>>),
       JList(<<JDict(<<Entry(CategoryKey, JStr(Backend)),
                       Entry(SkillsKey, JStr(<<"G", "o", ";", "P", "y">>))>>)>>),
       JList(<<JNull>>),
       JNum(5),
       JList(<<JDict(<<Entry(CategoryKey, JStr(Backend))>>)>>),
       JDict(<<Entry(Backend, JStr(<<" ", ",">>))>>),
       JList(<<JDict(<<Entry(CategoryKey, JStr(Backend)), Entry(SkillsKey, StrList(<<Go>>))>>),
               JStr(Py)>>),
       JList(<<JStr(Go),
               JDict(<<Entry(CategoryKey, JStr(Backend)), Entry(SkillsKey, StrList(<<Py>>))>>)>>),
       StrList(<<<<" ", "G", "o", " ">>, <<" ">>, Py>>),
       JList(<<JDict(<<Entry(CategoryKey, JStr(Backend)),
                       Entry(SkillsKey, JList(<<JStr(Go), JNum(5)>>))>>)>>) >>

\* values a request may give as "experience"
ExperienceInputs ==
    << JList(<<>>),
       JList(<<RawExperience(Acme, <<BulletA>>)>>),
       JList(<<RawExperience(Acme, <<BulletA, BulletB>>), RawExperience(Bolt, <<BulletC>>)>>),
       JList(<<RawExperience(Acme, <<>>)>>),
       JNull,
       JList(<<JDict(<<Entry(K_employer, JStr(Acme)), Entry(K_role, JStr(Dev)),
                       Entry(K_startDate, JStr(Y2020)), Entry(K_endDate, JStr(Y2021)),
                       Entry(K_description, StrList(<<BulletA>>))>>)>>) >>

RawPersonalInfo ==
    JDict(<<Entry(K_name, JStr(<<"J">>)), Entry(K_email, JStr(<<"j", "@", "x">>))>>)

\* the request body: a skills or experience index of 0 omits the field
RawResume(si, ei) ==
    JDict(<<Entry(K_id, JStr(<<"r">>)), Entry(K_name, JStr(<<"v">>)),
            Entry(K_personalInfo, RawPersonalInfo)>>
          \o (IF ei = 0 THEN <<>> ELSE <<Entry(K_experience, ExperienceInputs[ei])>>)
          \o (IF si = 0 THEN <<>> ELSE <<Entry(SkillsKey, SkillsInputs[si])>>))

P1 == <<"P", "1">>
P2 == <<"P", "2">>
Zed == <<"Z">>
Uni == <<"U">>
Cert == <<"C">>

RawProject(name, highlights) ==
    JDict(<<Entry(K_name, JStr(name)), Entry(K_description, JStr(<<"d">>)),
            Entry(K_highlights, StrList(highlights))>>)

RawEducation ==
    JDict(<<Entry(K_institution, JStr(Uni)), Entry(K_degree, JStr(<<"B", "S">>))>>)

RawCertification ==
    JDict(<<Entry(K_name, JStr(Cert)), Entry(K_issuer, JStr(<<"I">>)),
            Entry(K_date, JStr(Y2021))>>)

\* request bodies of the resumes that get tailored
RawResumes ==
    << RawResume(5, 2),
       JDict(<<Entry(K_id, JStr(<<"r", "2">>)), Entry(K_name, JStr(<<"v">>)),
               Entry(K_personalInfo,
                     JDict(<<Entry(K_name, JStr(<<"J">>)),
                             Entry(K_email, JStr(<<"j", "@", "x">>)),
                             Entry(K_summary, JStr(<<"s">>))>>)),
               Entry(K_education, JList(<<RawEducation>>)),
               Entry(K_experience, ExperienceInputs[3]),
               Entry(SkillsKey, SkillsInputs[6]),
               Entry(K_projects, JList(<<RawProject(P1, <<BulletA>>)>>)),
               Entry(K_certifications, JList(<<RawCertification>>))>>),
       JDict(<<Entry(K_id, JStr(<<"r", "3">>)), Entry(K_name, JStr(<<"v">>)),
               Entry(K_personalInfo, RawPersonalInfo),
               Entry(K_experience,
                     JList(<<RawExperience(Acme, <<BulletA>>),
                             RawExperience(Acme, <<BulletB>>)>>)),
               Entry(SkillsKey, SkillsInputs[8]),
               Entry(K_projects, JList(<<RawProject(P1, <<>>),
                                         RawProject(P2, <<BulletB>>)>>)),
               Entry(K_certifications, JList(<<RawCertification>>))>>) >>

AIExperience(company, description) ==
    JDict(<<Entry(K_company, JStr(company)), Entry(K_description, description)>>)

AIProject(name, highlights) ==
    JDict(<<Entry(K_name, JStr(name)), Entry(K_highlights, highlights)>>)

BulletX == <<"x">>
BulletY == <<"y">>

\* values the AI result may give as "summary"; Absent omits the key
AISummaries == <<Absent, JStr(<<>>), JStr(<<"t">>), JNull>>

\* values the AI result may give as "experiences"
AIExperiences ==
    << Absent,
       JList(<<>>),
       JList(<<AIExperience(Acme, StrList(<<BulletX, BulletY>>))>>),
       JList(<<AIExperience(Acme, JList(<<>>))>>),
       JList(<<AIExperience(Acme, JStr(<<"x", "\n", " ", "y", " ", "\n">>))>>),
       JList(<<AIExperience(Zed, StrList(<<BulletX>>))>>),
       JList(<<AIExperience(Acme, StrList(<<BulletX>>)),
               AIExperience(Acme, StrList(<<BulletY>>))>>),
       JList(<<JDict(<<Entry(K_company, JStr(Acme))>>)>>),
       JList(<<AIExperience(Acme, JStr(<<" ", "\n">>))>>),
       JNull,
       JList(<<AIExperience(Bolt, StrList(<<BulletY>>)),
               AIExperience(Acme, StrList(<<BulletX>>))>>),
       JList(<<AIExperience(Acme, JNull)>>),
       JList(<<AIExperience(Acme \o <<" ">>, StrList(<<BulletX>>))>>) >>

\* values the AI result may give as "projects"
AIProjects ==
    << Absent,
       JList(<<AIProject(P1, StrList(<<BulletX>>))>>),
       JList(<<AIProject(P1, JList(<<>>))>>),
       JList(<<JDict(<<Entry(K_name, JStr(P1))>>)>>),
       JList(<<JDict(<<Entry(K_highlights, StrList(<<BulletX>>))>>)>>),
       JList(<<AIProject(P2, JStr(<<"x", "\n", "y">>))>>),
       JList(<<AIProject(Zed, StrList(<<BulletX>>))>>) >>

\* values the AI result may give as "skills"
AISkills ==
    << Absent,
       JDict(<<>>),
       JDict(<<Entry(Backend, StrList(<<Py>>))>>),
       StrList(<<Py>>),
       JDict(<<Entry(Backend, JList(<<>>))>>),
       JStr(Py),
       JNull >>

OptEntry(k, v) == IF v = Absent THEN <<>> ELSE <<Entry(k, v)>>

\* the "tailoredResume" object of an AI result
AITailored(su, ex, pr, sk) ==
    JDict(OptEntry(K_summary, AISummaries[su]) \o OptEntry(K_experiences, AIExperiences[ex])
          \o OptEntry(K_projects, AIProjects[pr]) \o OptEntry(SkillsKey, AISkills[sk]))

\* an AI result: the object the upstream text encodes
AIResult(tailoredResume, matched, missing) ==
    JDict(OptEntry(K_tailoredResume, tailoredResume) \o OptEntry(K_matchedKeywords, matched)
          \o OptEntry(K_missingKeywords, missing))

GoodResult == AIResult(AITailored(3, 3, 2, 3), StrList(<<Go>>), StrList(<<Py>>))

Fenced(text) == FenceJson \o <<"\n">> \o text \o <<"\n">> \o Fence

\* the last n characters cut off
CutOff(text, n) == SubSeq(text, 1, Len(text) - n)

\* the texts the upstream service answers with (response.text)
UpstreamTexts ==
    << <<>>,
       Dumps(GoodResult),
       Fenced(Dumps(GoodResult)),
       CutOff(Dumps(GoodResult), 3),
       CutOff(Dumps(GoodResult), 12),
       <<"[", "]">>,
       <<"o", "o", "p", "s">>,
       Dumps(AIResult(Absent, StrList(<<Go>>), Absent)),
       Dumps(AIResult(AITailored(1, 8, 1, 1), StrList(<<Go>>), Absent)),
       Dumps(AIResult(AITailored(3, 3, 1, 1), JNum(5), Absent)),
       Dumps(AIResult(AITailored(1, 4, 1, 1), Absent, Absent)) >>

\* the resume of the tailoring requests
RequestResume == RawResumes[2]

\* what str(e) of an upstream exception looks like to the classification
ErrorKinds == <<"rate_limit", "generic">>

(***************************************************************************)
(* State                                                                   *)
(***************************************************************************)
VARIABLES
    rawInput,      \* validation: the untyped mapping handed to Resume(**data)
    validation,    \* validation: [done, ok, errors, resume]
    heap,          \* merge: the objects
    original,      \* merge: address of the original Resume
    tailored,      \* merge: the AI result's tailoredResume value
    origBefore,    \* merge: the original's value when the merge was called
    merged,        \* merge: [done, raised, enhanced]
    settings,      \* the Settings the process runs with (config.py)
    service,       \* _gemini_service: 0 is None, n the n-th GeminiService constructed
    active,        \* the request whose handler runs; 0 when the loop is idle
    req,           \* per request: the handler's position, locals and history
    threads,       \* the worker threads started by _call_with_timeout
    cells,         \* the result/exception lists the threads write into
    sessions,      \* the artifact sessions with their saved JSON
    parse,         \* _parse_json_response: position, texts and outcome of one call
    score,         \* _calculate_ats_score: the two keyword lists and the value returned
    retry,         \* _make_request: two calls that meet the same upstream outcomes
    projection,    \* _extract_minimal_resume: the resume given and the dict returned
    store          \* artifacts.py: the clock, the folders and the start_session calls

validateVars == <<rawInput, validation>>
mergeVars == <<heap, original, tailored, origBefore, merged>>
unitVars == <<parse, score, retry, projection, store>>
vars == <<rawInput, validation, heap, original, tailored, origBefore, merged,
          settings, service, active, req, threads, cells, sessions, parse, score, retry,
          projection, store>>

NotValidated == [done |-> FALSE, ok |-> FALSE, errors |-> {}, resume |-> JNull]

(***************************************************************************)
(* The /tailor endpoint: requests, the upstream call with its deadline and *)
(* retries, parse, merge, score, artifacts.  The endpoint is a coroutine   *)
(* that calls the blocking service directly, so one handler runs at a      *)
(* time; the worker threads of _call_with_timeout run beside it.           *)
(***************************************************************************)
NumRequests == 2
MaxRetryAttempts == 3
MaxRetryDelay == 2

Req == 1..NumRequests

\* a request starts at most one thread per attempt
ThreadIds == 1..(NumRequests * (MaxRetryAttempts + 1))

StageOrder == <<"projection", "call", "parse", "merge", "score">>

NewRequest ==
    [pc |-> "new", resume |-> 0, prompt |-> JNull, retry_count |-> 0, thread |-> 0,
     response_text |-> <<>>, result |-> JNull, enhanced |-> 0, tailor_response |-> JNull,
     slept |-> <<>>, stages |-> <<>>, failure |-> "none", failed_at |-> "none",
     http |-> 0, delivered |-> {}, abandoned |-> {}, gemini_service |-> 0]

DefaultSettings ==
    [GEMINI_RETRY_ATTEMPTS |-> 3, GEMINI_RETRY_DELAY |-> 1, GEMINI_API_KEY |-> TRUE]

pipeVars == <<settings, service, active, req, threads, cells, sessions>>

PipeIdle ==
    /\ settings = DefaultSettings /\ service = 0 /\ active = 0
    /\ req = [r \in Req |-> NewRequest]
    /\ threads = <<>> /\ cells = <<>> /\ sessions = <<>>

\* result = [None]; exception = [None]
EmptyCell == [result |-> JNull, exception |-> JNull]

\* the lists "result" and "exception" of call t are locals of that call of
\* _call_with_timeout (lines 76-77): every call has its own
SharedResultCell(t) == 1

ResultCell(t) == t

PutCell(cs, a, v) == IF a > Len(cs) THEN Append(cs, v) ELSE [cs EXCEPT ![a] = v]

\* the cells something still refers to: the closure of a running thread, or
\* the frame of a _call_with_timeout that has not returned
LiveCells(thr, rq) ==
    {ResultCell(t) : t \in {u \in 1..Len(thr) : thr[u].out = "running"}}
    \cup {ResultCell(rq[r].thread) : r \in {q \in Req : rq[q].pc \in {"join", "alive"}}}

\* the lists nothing refers to any more are garbage
Collect(cs, thr, rq) ==
    [a \in 1..Len(cs) |-> IF a \in LiveCells(thr, rq) THEN cs[a] ELSE EmptyCell]

\* thread.is_alive()
IsAliveNever(th) == FALSE

IsAlive(th) == th.out = "running"

\* line 226
LinearDelay(d, k) == d * (k + 1)

BackoffDelay(d, k) == d * (2 ^ k)

\* line 165: not response_text.rstrip().endswith(('}', ']'))
SeemsTruncated(response_text) ==
    LET t == RStrip(response_text)
    IN  ~(t # <<>> /\ t[Len(t)] \in {"}", "]"})

ResponseCheckStrict(response_text) ==
    [raises |-> response_text = <<>> \/ SeemsTruncated(response_text),
     warned |-> SeemsTruncated(response_text)]

ResponseCheckLenient(response_text) ==
    [raises |-> FALSE,
     warned |-> response_text # <<>> /\ SeemsTruncated(response_text)]

\* lines 160-167: an empty text raises ValueError; a text that seems cut off
\* is logged with a warning and nothing more
ResponseCheck(response_text) ==
    [raises |-> response_text = <<>>,
     warned |-> response_text # <<>> /\ SeemsTruncated(response_text)]

\* lines 201-235, "except Exception": retry while the budget lasts
ErrorOutcome(retry_count, attempts) == IF retry_count < attempts THEN "retry" ELSE "fail"

TimeoutRetried(retry_count, attempts) == ErrorOutcome(retry_count, attempts)

\* lines 187-199, "except TimeoutError": return None
TimeoutOutcome(retry_count, attempts) == "fail"

get_gemini_service_fresh(held, api_key) ==
    IF api_key THEN [raised |-> FALSE, service |-> held + 1]
    ELSE [raised |-> TRUE, service |-> held]

\* gemini.py lines 700-709: the instance the global holds, constructed at
\* the first call; GeminiService() raises ValueError without an API key
\* (lines 105-106) and the global stays None.  All callers are coroutines
\* and nothing here awaits, so test and assignment are one step.
get_gemini_service(held, api_key) ==
    IF held # 0 THEN [raised |-> FALSE, service |-> held]
    ELSE IF api_key THEN [raised |-> FALSE, service |-> held + 1]
    ELSE [raised |-> TRUE, service |-> held]

\* tailor.py line 95: if not tailor_response
TailoringNeverFailed(response) == FALSE

TailoringFailed(response) == response = JNull

(***************************************************************************)
(* Validation of a request body                                            *)
(***************************************************************************)
ValidateIdle == rawInput = JNull /\ validation = NotValidated

\* no call of _parse_json_response in progress
NotParsing ==
    [pc |-> "idle", text |-> <<>>, work |-> <<>>, brackets |-> 0, loads |-> 0,
     steps |-> <<>>, raised |-> FALSE, v |-> JNull]

ParseIdle == parse = NotParsing

\* no call of _calculate_ats_score in progress
NotScored == [matched |-> JNull, missing |-> JNull, done |-> FALSE, value |-> 0]

ScoreIdle == score = NotScored

\* no call of _make_request under comparison
RetryIdle == retry = JNull

\* no call of _extract_minimal_resume under study
ProjectIdle == projection = JNull

\* no start_session call under study
StoreIdle == store = JNull

UnitIdle == ParseIdle /\ ScoreIdle /\ RetryIdle /\ ProjectIdle /\ StoreIdle

NotMerged == [done |-> FALSE, raised |-> FALSE, enhanced |-> 0]

MergeIdle ==
    /\ heap = <<>> /\ original = 0 /\ tailored = JNull
    /\ origBefore = JNull /\ merged = NotMerged

InitValidate ==
    /\ MergeIdle /\ PipeIdle /\ UnitIdle
    /\ \E si \in 0..Len(SkillsInputs), ei \in 0..Len(ExperienceInputs) :
           rawInput = RawResume(si, ei)
    /\ validation = NotValidated

\* Resume(**data)
Validate ==
    /\ ~validation.done
    /\ validation' = [done |-> TRUE] @@ ValidateResume(rawInput)
    /\ UNCHANGED <<rawInput, mergeVars, pipeVars, unitVars>>

NextValidate == Validate

SpecValidate == InitValidate /\ [][NextValidate]_vars

(***************************************************************************)
(* The merge of an AI result into a validated resume                       *)
(***************************************************************************)
InitMerge ==
    /\ ValidateIdle /\ PipeIdle /\ UnitIdle
    /\ \E ri \in 1..Len(RawResumes) :
           /\ ValidateResume(RawResumes[ri]).ok
           /\ LET a == AllocResume(<<>>, ValidateResume(RawResumes[ri]).resume)
              IN  /\ heap = a.heap
                  /\ original = a.ref
                  /\ origBefore = ResumeValue(a.heap, a.ref)
    /\ \E su \in 1..Len(AISummaries), ex \in 1..Len(AIExperiences),
          pr \in 1..Len(AIProjects), sk \in 1..Len(AISkills) :
           tailored = AITailored(su, ex, pr, sk)
    /\ merged = NotMerged

\* self._merge_tailored_content(resume, tailored)
MergeCall ==
    /\ ~merged.done
    /\ LET m == merge_tailored_content(heap, original, tailored)
       IN  /\ heap' = m.heap
           /\ merged' = [done |-> TRUE, raised |-> m.raised, enhanced |-> m.enhanced]
    /\ UNCHANGED <<original, tailored, origBefore, validateVars, pipeVars, unitVars>>

NextMerge == MergeCall

SpecMerge == InitMerge /\ [][NextMerge]_vars

(***************************************************************************)
(* One call of _parse_json_response, statement by statement                *)
(***************************************************************************)
\* texts the upstream service may answer with, written out
T_List == <<"[", Quote, "a", Quote, "]">>
T_OpenList == <<"[", Quote, "a", Quote>>
T_OpenString == <<Quote, "a", "b">>
T_Number == <<"5">>
T_String == <<Quote, "a", Quote>>
T_TrailingComma == <<"{", Quote, "a", Quote, ":", " ", "1", ",", " ", "}">>
T_DanglingComma == <<"{", Quote, "a", Quote, ":", "1", "}", ",", " ">>
T_ListComma == <<"[", "1", ",", "2", ",">>
T_EscapedQuote == <<"{", Quote, "a", Quote, ":", Quote, "x", Backslash, Quote>>
T_Closers == <<"}", "]">>
T_Nested == <<"{", Quote, "a", Quote, ":", "[", "{", Quote, "b", Quote, ":", "[", "1">>

\* the shape of the documented example: an object whose tailoredResume
\* object is closed, cut inside the first string of the matchedKeywords array
TruncatedExample(tailoredResume, word) ==
    <<"{", Quote>> \o K_tailoredResume \o <<Quote, ":">> \o Dumps(tailoredResume)
        \o <<",", Quote>> \o K_matchedKeywords \o <<Quote, ":", "[", Quote>> \o word

ExampleTexts ==
    {TruncatedExample(t, w) :
        t \in {JDict(<<>>), AITailored(3, 1, 1, 1), AITailored(3, 3, 2, 3)},
        w \in {<<"P", "y", "t", "h", "o", "n">>, <<"G">>}}

\* every proper prefix of a text, and the text itself
Prefixes(text) == {SubSeq(text, 1, n) : n \in 1..Len(text)}

ParseTexts ==
    {UpstreamTexts[i] : i \in 1..Len(UpstreamTexts)}
        \cup Prefixes(Dumps(GoodResult))
        \cup {Fenced(t) : t \in Prefixes(Dumps(AIResult(JDict(<<>>), StrList(<<Go>>), JNull)))}
        \cup ExampleTexts
        \cup {T_List, T_OpenList, T_OpenString, T_Number, T_String, T_TrailingComma,
              T_DanglingComma, T_ListComma, T_EscapedQuote, T_Closers, T_Nested}

\* the repairs in the order of the statements of lines 310-354
RepairOrder == <<"strip", "quote", "braces", "brackets", "commas", "dangling", "reparse">>

RepairSuccessorBracketsFirst(step) ==
    CASE step = "quote" -> "brackets"
      [] step = "brackets" -> "braces"
      [] step = "braces" -> "commas"
      [] OTHER -> RepairOrder[(CHOOSE i \in 1..Len(RepairOrder) : RepairOrder[i] = step) + 1]

\* the statement that follows a repair statement
RepairSuccessor(step) ==
    RepairOrder[(CHOOSE i \in 1..Len(RepairOrder) : RepairOrder[i] = step) + 1]

\* s.count(open) - s.count(close)
MissingClosers(s, open, close) == CountChar(s, open) - CountChar(s, close)

\* s += c * n, under "if open > close"
AppendClosers(s, c, n) == IF n > 0 THEN s \o Repeat(c, n) ELSE s

InitParse ==
    /\ ValidateIdle /\ MergeIdle /\ PipeIdle /\ ScoreIdle /\ RetryIdle
    /\ ProjectIdle /\ StoreIdle
    /\ \E text \in ParseTexts : parse = [NotParsing EXCEPT !.pc = "strict", !.text = text]

\* a repair statement has run: the text it leaves and the statement after it
Repaired(step, work) ==
    parse' = [parse EXCEPT !.pc = RepairSuccessor(step), !.work = work,
                           !.steps = Append(@, step)]

\* lines 274-296: strip the fences, json.loads, log the keys, return.  The
\* argument of the log call at line 294, list(parsed.keys()), raises
\* AttributeError for a value that is no dict; no except clause catches it.
ParseStrict ==
    /\ parse.pc = "strict"
    /\ LET cleaned == StripFences(parse.text)
           loaded == JsonLoads(cleaned)
       IN  parse' = [parse EXCEPT
                        !.pc = IF loaded.ok THEN "done" ELSE "strip",
                        !.work = cleaned,
                        !.loads = @ + 1,
                        !.raised = loaded.ok /\ loaded.v.t # "dict",
                        !.v = IF loaded.ok /\ loaded.v.t = "dict" THEN loaded.v ELSE JNull]
    /\ UNCHANGED <<validateVars, mergeVars, pipeVars, score, retry, projection, store>>

\* lines 310-317: the repair starts again from the raw text
RepairStrip ==
    /\ parse.pc = "strip"
    /\ parse' = [parse EXCEPT !.pc = RepairSuccessor("strip"),
                              !.work = StripFences(parse.text)]
    /\ UNCHANGED <<validateVars, mergeVars, pipeVars, score, retry, projection, store>>

\* lines 321-324
RepairQuote ==
    /\ parse.pc = "quote"
    /\ Repaired("quote", CloseQuote(parse.work))
    /\ UNCHANGED <<validateVars, mergeVars, pipeVars, score, retry, projection, store>>

\* lines 327-335: the four counts, then the closing braces
RepairBraces ==
    /\ parse.pc = "braces"
    /\ parse' = [parse EXCEPT
                    !.pc = RepairSuccessor("braces"),
                    !.work = AppendClosers(@, "}", MissingClosers(parse.work, "{", "}")),
                    !.brackets = MissingClosers(parse.work, "[", "]"),
                    !.steps = Append(@, "braces")]
    /\ UNCHANGED <<validateVars, mergeVars, pipeVars, score, retry, projection, store>>

\* lines 337-339: the closing brackets, by the counts of lines 329-330
RepairBrackets ==
    /\ parse.pc = "brackets"
    /\ Repaired("brackets", AppendClosers(parse.work, "]", parse.brackets))
    /\ UNCHANGED <<validateVars, mergeVars, pipeVars, score, retry, projection, store>>

\* line 343
RepairCommas ==
    /\ parse.pc = "commas"
    /\ Repaired("commas", DropCommasBeforeClosers(parse.work, 1))
    /\ UNCHANGED <<validateVars, mergeVars, pipeVars, score, retry, projection, store>>

\* lines 346-349
RepairDangling ==
    /\ parse.pc = "dangling"
    /\ Repaired("dangling", DropDanglingComma(parse.work))
    /\ UNCHANGED <<validateVars, mergeVars, pipeVars, score, retry, projection, store>>

\* lines 352-360: json.loads(repaired); its value is returned whatever its
\* type, and any exception gives None
ParseRepaired ==
    /\ parse.pc = "reparse"
    /\ LET loaded == JsonLoads(parse.work)
       IN  parse' = [parse EXCEPT !.pc = "done", !.loads = @ + 1,
                                  !.v = IF loaded.ok THEN loaded.v ELSE JNull]
    /\ UNCHANGED <<validateVars, mergeVars, pipeVars, score, retry, projection, store>>

NextParse ==
    \/ ParseStrict
    \/ RepairStrip
    \/ RepairQuote
    \/ RepairBraces
    \/ RepairBrackets
    \/ RepairCommas
    \/ RepairDangling
    \/ ParseRepaired

SpecParse == InitParse /\ [][NextParse]_vars

(***************************************************************************)
(* One call of _calculate_ats_score                                        *)
(***************************************************************************)
MaxKeywords == 30

\* a keyword list of n entries
KeywordList(n) == JList([i \in 1..n |-> JStr(Go)])

InitScore ==
    /\ ValidateIdle /\ MergeIdle /\ PipeIdle /\ ParseIdle /\ RetryIdle
    /\ ProjectIdle /\ StoreIdle
    /\ \E m \in 0..MaxKeywords, n \in 0..MaxKeywords :
           score = [NotScored EXCEPT !.matched = KeywordList(m), !.missing = KeywordList(n)]

\* self._calculate_ats_score(matched, missing)
CalculateScore ==
    /\ ~score.done
    /\ score' = [score EXCEPT !.done = TRUE,
                              !.value = calculate_ats_score(score.matched, score.missing).score]
    /\ UNCHANGED <<validateVars, mergeVars, pipeVars, parse, retry, projection, store>>

NextScore == CalculateScore

SpecScore == InitScore /\ [][NextScore]_vars

(***************************************************************************)
(* _make_request, twice: two calls, with the same settings, whose upstream  *)
(* attempts end the same way and whose errors carry messages of their own  *)
(***************************************************************************)
UpperLetters ==
    <<"A", "B", "C", "D", "E", "F", "G", "H", "I", "J", "K", "L", "M",
      "N", "O", "P", "Q", "R", "S", "T", "U", "V", "W", "X", "Y", "Z">>
LowerLetters ==
    <<"a", "b", "c", "d", "e", "f", "g", "h", "i", "j", "k", "l", "m",
      "n", "o", "p", "q", "r", "s", "t", "u", "v", "w", "x", "y", "z">>

\* str.lower() on the characters of the model's messages
PyLower(s) ==
    [i \in 1..Len(s) |->
        IF \E k \in 1..26 : UpperLetters[k] = s[i]
        THEN LowerLetters[CHOOSE k \in 1..26 : UpperLetters[k] = s[i]]
        ELSE s[i]]

\* lines 202-203: error_str = str(e).lower(); "429" in error_str or
\* "resource" in error_str or "quota" in error_str
is_rate_limit(message) ==
    LET error_str == PyLower(message)
    IN  \/ IsSubstring(<<"4", "2", "9">>, error_str)
        \/ IsSubstring(<<"r", "e", "s", "o", "u", "r", "c", "e">>, error_str)
        \/ IsSubstring(<<"q", "u", "o", "t", "a">>, error_str)

\* the message of the ValueError of line 162
EmptyResponseMessage ==
    <<"E", "m", "p", "t", "y", " ", "r", "e", "s", "p", "o", "n", "s", "e", " ",
      "f", "r", "o", "m", " ", "G", "e", "m", "i", "n", "i">>

\* messages of the exceptions the upstream call raises
ErrorMessages ==
    {<<"4", "2", "9", " ", "T", "o", "o", " ", "M", "a", "n", "y">>,
     <<"R", "E", "S", "O", "U", "R", "C", "E", "_", "E", "X", "H", "A", "U", "S", "T", "E", "D">>,
     <<"Q", "u", "o", "t", "a", " ", "e", "x", "c", "e", "e", "d", "e", "d">>,
     <<"5", "0", "0", " ", "b", "o", "o", "m">>,
     <<"4", " ", "2", "9">>}

HandleExceptionRateLimitFinal(rate_limit, retry_count, attempts, delay) ==
    [warned |-> rate_limit,
     outcome |-> IF rate_limit THEN "fail" ELSE ErrorOutcome(retry_count, attempts),
     delay |-> BackoffDelay(delay, retry_count)]

\* lines 201-235, "except Exception", given the classification: the warning
\* of lines 205-211, then the retry logic
HandleException(rate_limit, retry_count, attempts, delay) ==
    [warned |-> rate_limit,
     outcome |-> ErrorOutcome(retry_count, attempts),
     delay |-> BackoffDelay(delay, retry_count)]

\* how an upstream attempt may end: an exception, an empty text, no answer
\* within the deadline, a text
AttemptEnds == {"error", "empty", "timeout", "text"}

\* what the attempts of one _make_request call meet, one after the other:
\* failures, and last a text or a missed deadline unless the n + 1 attempts
\* all fail
Scripts(n) ==
    {s \in UNION {[1..k -> AttemptEnds] : k \in 1..(n + 1)} :
        /\ \A i \in 1..(Len(s) - 1) : s[i] \in {"error", "empty"}
        /\ Len(s) <= n => s[Len(s)] \in {"timeout", "text"}}

Runs == {1, 2}

\* the texts an upstream answer may carry besides the empty one: complete,
\* cut off, complete with trailing blanks, blank
ResponseTexts ==
    {<<"{", "}">>, <<"[", "{">>, <<"[", "]", " ">>, <<" ">>}

\* GEMINI_TIMEOUT, in ticks of the clock the waits are measured in
TimeoutTicks == 2

\* an answer or an exception comes before the deadline; the least such wait
AnswerTicks == TimeoutTicks - 1

NewRun ==
    [pc |-> "call", retry_count |-> 0, calls |-> 0, slept |-> <<>>, outcome |-> "none",
     message |-> <<>>, warned |-> <<>>, response |-> JNull, truncation |-> FALSE,
     returned |-> JNull, waited |-> 0]

InitRetry ==
    /\ ValidateIdle /\ MergeIdle /\ PipeIdle /\ ParseIdle /\ ScoreIdle
    /\ ProjectIdle /\ StoreIdle
    /\ \E n \in 0..MaxRetryAttempts, d \in 1..MaxRetryDelay :
           \E s \in Scripts(n) :
               retry = [attempts |-> n, delay |-> d, script |-> s,
                        run |-> [i \in Runs |-> NewRun]]

\* the runs are taken one after the other
Turn(i) == \A j \in Runs : j < i => retry.run[j].pc = "done"

\* lines 157-186: the response has a text; an empty one raises the ValueError
\* of line 162 into "except Exception", any other is returned
Answered(run, response_text) ==
    LET c == ResponseCheck(response_text)
        r == [run EXCEPT !.response = JStr(response_text), !.truncation = c.warned,
                         !.waited = @ + AnswerTicks]
    IN  IF c.raises
        THEN [r EXCEPT !.pc = "except", !.message = EmptyResponseMessage]
        ELSE [r EXCEPT !.pc = "done", !.outcome = "text", !.returned = JStr(response_text)]

\* lines 187-199: the deadline passed without an answer
TimedOut(run, attempts) ==
    LET r == [run EXCEPT !.response = JNull, !.waited = @ + TimeoutTicks]
    IN  IF TimeoutOutcome(run.retry_count, attempts) = "fail"
        THEN [r EXCEPT !.pc = "done", !.outcome = "failed"]
        ELSE [r EXCEPT !.pc = "sleeping"]

\* lines 127-199: the attempt of run i is made and ends as the script says:
\* a text is returned, a missed deadline returns None at once, an exception
\* or an empty text (ValueError, line 162) reaches "except Exception"
RetryCall(i) ==
    /\ retry # JNull /\ Turn(i) /\ retry.run[i].pc = "call"
    /\ retry.run[i].retry_count < Len(retry.script)
    /\ LET end == retry.script[retry.run[i].retry_count + 1]
           run == [retry.run[i] EXCEPT !.calls = @ + 1]
       IN  CASE end = "text" ->
                    \E t \in ResponseTexts :
                        retry' = [retry EXCEPT !.run[i] = Answered(run, t)]
             [] end = "timeout" ->
                    retry' = [retry EXCEPT !.run[i] = TimedOut(run, retry.attempts)]
             [] end = "empty" ->
                    retry' = [retry EXCEPT !.run[i] = Answered(run, <<>>)]
             [] end = "error" ->
                    \E m \in ErrorMessages :
                        retry' = [retry EXCEPT !.run[i] =
                                     [run EXCEPT !.pc = "except", !.message = m,
                                                 !.response = JNull,
                                                 !.waited = @ + AnswerTicks]]
    /\ UNCHANGED <<validateVars, mergeVars, pipeVars, parse, score, projection, store>>

\* lines 201-235: classify, log, then sleep before the next attempt or
\* return None
RetryExcept(i) ==
    /\ retry # JNull /\ Turn(i) /\ retry.run[i].pc = "except"
    /\ LET run == retry.run[i]
           h == HandleException(is_rate_limit(run.message), run.retry_count,
                                retry.attempts, retry.delay)
       IN  retry' = [retry EXCEPT !.run[i] =
                        [run EXCEPT !.pc = IF h.outcome = "retry" THEN "sleeping" ELSE "done",
                                    !.outcome = IF h.outcome = "retry" THEN "none" ELSE "failed",
                                    !.slept = IF h.outcome = "retry" THEN Append(@, h.delay) ELSE @,
                                    !.message = <<>>,
                                    !.warned = Append(@, h.warned)]]
    /\ UNCHANGED <<validateVars, mergeVars, pipeVars, parse, score, projection, store>>

\* lines 230-231: the sleep is over, _make_request(prompt, retry_count + 1)
RetryWake(i) ==
    /\ retry # JNull /\ Turn(i) /\ retry.run[i].pc = "sleeping"
    /\ retry' = [retry EXCEPT !.run[i].pc = "call", !.run[i].retry_count = @ + 1]
    /\ UNCHANGED <<validateVars, mergeVars, pipeVars, parse, score, projection, store>>

NextRetry ==
    \/ \E i \in Runs : RetryCall(i)
    \/ \E i \in Runs : RetryExcept(i)
    \/ \E i \in Runs : RetryWake(i)

SpecRetry == InitRetry /\ [][NextRetry]_vars

\* _make_request runs on: the call returns or the join of line 87 gives up
\* at the deadline, the handler is straight-line code, time.sleep returns
SpecRetryLive == SpecRetry /\ WF_vars(NextRetry)

(***************************************************************************)
(* _extract_minimal_resume on resumes whose skills are a flat list         *)
(***************************************************************************)
MaxSkills == 19

SkillPatterns == {"ascending", "descending", "same", "alternating"}

\* the name of the k-th numbered skill
NumberedSkill(k) == <<"s">> \o DigitsOf(k)

\* a flat skills list of n strings
FlatSkills(n, pattern) ==
    [k \in 1..n |->
        CASE pattern = "ascending" -> NumberedSkill(k)
          [] pattern = "descending" -> NumberedSkill(n + 1 - k)
          [] pattern = "same" -> Go
          [] OTHER -> IF k % 2 = 1 THEN Go ELSE Py]

\* a validated resume with the given flat list as its skills
ResumeWithSkills(skills) ==
    LET a == AllocResume(<<>>, ValidateResume(RawResumes[1]).resume)
    IN  [ResumeValue(a.heap, a.ref) EXCEPT !.skills = StrList(skills)]

InitProject ==
    /\ ValidateIdle /\ MergeIdle /\ PipeIdle /\ ParseIdle /\ ScoreIdle /\ RetryIdle
    /\ StoreIdle
    /\ \E n \in 0..MaxSkills, pattern \in SkillPatterns :
           projection = [resume |-> ResumeWithSkills(FlatSkills(n, pattern)),
                         done |-> FALSE, minimal |-> JNull]

\* minimal_resume = self._extract_minimal_resume(resume)
ProjectFlat ==
    /\ projection # JNull /\ ~projection.done
    /\ projection' = [projection EXCEPT !.done = TRUE,
                                        !.minimal = extract_minimal_resume(projection.resume)]
    /\ UNCHANGED <<validateVars, mergeVars, pipeVars, parse, score, retry, store>>

NextProject == ProjectFlat

SpecProject == InitProject /\ [][NextProject]_vars

(***************************************************************************)
(* utils/artifacts.py: start_session under a clock                         *)
(***************************************************************************)
MaxSessions == 2
MaxClock == 4

\* the clock counts half seconds; strftime shows whole seconds
TicksPerSecond == 2

Unknown == <<"u", "n", "k", "n", "o", "w", "n">>
General == <<"g", "e", "n", "e", "r", "a", "l">>

\* the characters the pattern [^A-Za-z0-9_\-] leaves alone
SafeChars ==
    {UpperLetters[k] : k \in 1..26} \cup {LowerLetters[k] : k \in 1..26}
        \cup {DigitChar(k) : k \in 0..9} \cup {"_", "-"}

\* lines 25-28: _sanitize(value), value a string or None
sanitize(value) ==
    IF value = JNull \/ value.s = <<>> THEN Unknown
    ELSE LET t == Strip(value.s)
             u == [i \in 1..Len(t) |-> IF t[i] \in SafeChars THEN t[i] ELSE "_"]
         IN  IF u = <<>> THEN Unknown ELSE u

\* time.strftime("%Y%m%d-%H%M%S"): the second the clock is in
TimeStamp(clock) == DigitsOf(clock \div TicksPerSecond)

\* lines 33-37: the path, as its parts under BASE_DIR
SessionPath(clock, name, id, target_role) ==
    LET candidate == sanitize(name)
        resume_id == sanitize(id)
        role == IF target_role # JNull /\ target_role.s # <<>>
                THEN sanitize(target_role) ELSE General
    IN  <<candidate, resume_id, TimeStamp(clock) \o <<"-">> \o role>>

\* resume.personalInfo.name, resume.id and request.targetRole of the calls
CandidateNames == {JStr(<<"A", "l">>), JStr(<<"A", " ", "l">>), JStr(<<"A", "_", "l">>)}
ResumeIds == {JStr(<<"r", "1">>), JStr(<<"r", "2">>)}
TargetRoles == {JNull, JStr(<<"Q", "A">>), JStr(General)}

InitSessions ==
    /\ ValidateIdle /\ MergeIdle /\ PipeIdle /\ ParseIdle /\ ScoreIdle /\ RetryIdle
    /\ ProjectIdle
    /\ store = [clock |-> 0, dirs |-> {}, latest |-> {}, calls |-> <<>>]

\* time passes
Tick ==
    /\ store # JNull /\ store.clock < MaxClock
    /\ store' = [store EXCEPT !.clock = @ + 1]
    /\ UNCHANGED <<validateVars, mergeVars, pipeVars, parse, score, retry, projection>>

\* lines 31-41: start_session(resume, target_role); path.mkdir(parents=True,
\* exist_ok=True) makes the folder or finds it there; the call takes time
StartSession(name, id, target_role) ==
    /\ store # JNull /\ Len(store.calls) < MaxSessions /\ store.clock < MaxClock
    /\ LET path == SessionPath(store.clock, name, id, target_role)
       IN  store' = [clock |-> store.clock + 1,
                     dirs |-> store.dirs \cup {path},
                     latest |-> {e \in store.latest : e.id # id}
                                    \cup {[id |-> id, path |-> path]},
                     calls |-> Append(store.calls,
                                      [name |-> name, id |-> id, role |-> target_role,
                                       at |-> store.clock, made |-> path \notin store.dirs,
                                       path |-> path])]
    /\ UNCHANGED <<validateVars, mergeVars, pipeVars, parse, score, retry, projection>>

NextSessions ==
    \/ Tick
    \/ \E name \in CandidateNames, id \in ResumeIds, target_role \in TargetRoles :
           StartSession(name, id, target_role)

SpecSessions == InitSessions /\ [][NextSessions]_vars

(***************************************************************************)
(* The tailoring pipeline                                                  *)
(***************************************************************************)
InitPipeline ==
    /\ ValidateIdle /\ UnitIdle
    /\ heap = <<>> /\ original = 0 /\ tailored = JNull
    /\ origBefore = JNull /\ merged = NotMerged
    /\ \E n \in 0..MaxRetryAttempts, d \in 1..MaxRetryDelay, key \in BOOLEAN :
           settings = [GEMINI_RETRY_ATTEMPTS |-> n, GEMINI_RETRY_DELAY |-> d,
                       GEMINI_API_KEY |-> key]
    /\ service = 0 /\ active = 0
    /\ req = [r \in Req |-> NewRequest]
    /\ threads = <<>> /\ cells = <<>> /\ sessions = <<>>

\* the locals of the handler and of the service calls it made
NoLocals ==
    [prompt |-> JNull, retry_count |-> 0, thread |-> 0, response_text |-> <<>>,
     result |-> JNull, enhanced |-> 0]

\* the handler of request r returns or raises: its locals are gone and the
\* event loop is free again
Respond(r, status, fields) ==
    /\ req' = [req EXCEPT ![r] = [pc |-> "done", http |-> status] @@ fields @@ NoLocals
                                 @@ req[r]]
    /\ active' = 0

\* tailor_resume returns None to the endpoint
ReturnNone(r, stage, fields) ==
    req' = [req EXCEPT ![r] = [pc |-> "returned", tailor_response |-> JNull,
                               failed_at |-> stage] @@ fields @@ req[r]]

\* request r reaches the handler; FastAPI has built request.resume
Receive(r) ==
    /\ active = 0 /\ req[r].pc = "new"
    /\ \A q \in Req : q < r => req[q].pc # "new"
    /\ LET a == AllocResume(heap, ValidateResume(RequestResume).resume)
       IN  /\ heap' = a.heap
           /\ req' = [req EXCEPT ![r].pc = "service", ![r].resume = a.ref]
    /\ active' = r
    /\ UNCHANGED <<settings, service, threads, cells, sessions>>
    /\ UNCHANGED <<validateVars, unitVars, original, tailored, origBefore, merged>>

\* tailor.py lines 78-85 and get_gemini_service
GetService(r) ==
    /\ active = r /\ req[r].pc = "service"
    /\ LET g == get_gemini_service(service, settings.GEMINI_API_KEY)
       IN  IF ~g.raised
           THEN /\ service' = g.service
                /\ req' = [req EXCEPT ![r].pc = "project", ![r].gemini_service = g.service]
                /\ UNCHANGED active
           ELSE /\ Respond(r, 503, [failed_at |-> "service"])
                /\ UNCHANGED service
    /\ UNCHANGED <<settings, threads, cells, sessions>>
    /\ UNCHANGED <<validateVars, unitVars, mergeVars>>

\* gemini.py lines 503-519
Project(r) ==
    /\ active = r /\ req[r].pc = "project"
    /\ req' = [req EXCEPT ![r].pc = "request",
                          ![r].prompt = extract_minimal_resume(ResumeValue(heap, req[r].resume)),
                          ![r].stages = Append(@, "projection")]
    /\ UNCHANGED <<settings, service, active, threads, cells, sessions>>
    /\ UNCHANGED <<validateVars, unitVars, mergeVars>>

\* _make_request(prompt, retry_count) up to thread.start() (lines 127-152,
\* 76-86); the stage starts with the first call
StartCall(r) ==
    /\ active = r /\ req[r].pc = "request"
    /\ LET t == Len(threads) + 1
       IN  /\ threads' = Append(threads, [req |-> r, attempt |-> req[r].retry_count,
                                          out |-> "running"])
           /\ cells' = PutCell(cells, ResultCell(t), EmptyCell)
           /\ req' = [req EXCEPT ![r].pc = "join", ![r].thread = t,
                                 ![r].stages = IF req[r].retry_count = 0
                                               THEN Append(@, "call") ELSE @]
    /\ UNCHANGED <<settings, service, active, sessions>>
    /\ UNCHANGED <<validateVars, unitVars, mergeVars>>

\* target(), line 81: the upstream call of thread t returns a response
UpstreamReturn(t) ==
    /\ t <= Len(threads)
    /\ threads[t].out = "running"
    /\ \E i \in 1..Len(UpstreamTexts) :
           /\ threads' = [threads EXCEPT ![t].out =
                                             IF UpstreamTexts[i] = <<>> THEN "no_text" ELSE "text"]
           /\ cells' = Collect([cells EXCEPT ![ResultCell(t)].result =
                                                 [text |-> UpstreamTexts[i], from |-> t]],
                               threads', req)
    /\ UNCHANGED <<settings, service, active, req, sessions>>
    /\ UNCHANGED <<validateVars, unitVars, mergeVars>>

\* target(), lines 82-83: the upstream call of thread t raises
UpstreamRaise(t) ==
    /\ t <= Len(threads)
    /\ threads[t].out = "running"
    /\ threads' = [threads EXCEPT ![t].out = "no_text"]
    /\ \E i \in 1..Len(ErrorKinds) :
           cells' = Collect([cells EXCEPT ![ResultCell(t)].exception =
                                              [kind |-> ErrorKinds[i], from |-> t]],
                            threads', req)
    /\ UNCHANGED <<settings, service, active, req, sessions>>
    /\ UNCHANGED <<validateVars, unitVars, mergeVars>>

\* thread.join(timeout) returns because the thread has ended
JoinFinished(r) ==
    /\ active = r /\ req[r].pc = "join"
    /\ threads[req[r].thread].out # "running"
    /\ req' = [req EXCEPT ![r].pc = "alive"]
    /\ UNCHANGED <<settings, service, active, threads, cells, sessions>>
    /\ UNCHANGED <<validateVars, unitVars, mergeVars>>

\* thread.join(timeout) returns because GEMINI_TIMEOUT seconds have passed
JoinDeadline(r) ==
    /\ active = r /\ req[r].pc = "join"
    /\ threads[req[r].thread].out = "running"
    /\ req' = [req EXCEPT ![r].pc = "alive"]
    /\ UNCHANGED <<settings, service, active, threads, cells, sessions>>
    /\ UNCHANGED <<validateVars, unitVars, mergeVars>>

\* the except clauses of _make_request: sleep and call again, or return None
\* to tailor_resume, which returns None (lines 527-529)
HandleFailure(r, outcome, kind, fields) ==
    IF outcome = "retry"
    THEN req' = [req EXCEPT ![r] =
                    [pc |-> "sleeping",
                     slept |-> Append(req[r].slept,
                                      BackoffDelay(settings.GEMINI_RETRY_DELAY,
                                                   req[r].retry_count))]
                    @@ fields @@ req[r]]
    ELSE ReturnNone(r, "call", [failure |-> kind] @@ fields)

\* lines 89-92 and 187-199: the thread is still alive, TimeoutError
CallTimedOut(r) ==
    /\ active = r /\ req[r].pc = "alive"
    /\ IsAlive(threads[req[r].thread])
    /\ HandleFailure(r, TimeoutOutcome(req[r].retry_count, settings.GEMINI_RETRY_ATTEMPTS),
                     "timeout", [abandoned |-> req[r].abandoned \cup {req[r].thread}])
    /\ cells' = Collect(cells, threads, req')
    /\ UNCHANGED <<settings, service, active, threads, sessions>>
    /\ UNCHANGED <<validateVars, unitVars, mergeVars>>

\* the calls whose result or exception the cell holds
CellSources(c) ==
    (IF c.exception = JNull THEN {} ELSE {c.exception.from})
    \cup (IF c.result = JNull THEN {} ELSE {c.result.from})

\* what _make_request sees of a cell: the exception if there is one (lines
\* 94-95), else the response; no response (AttributeError at line 158) and
\* an empty text (ValueError, line 162) are errors as well
CellFailed(c) ==
    IF c.exception # JNull \/ c.result = JNull THEN TRUE ELSE c.result.text = <<>>

\* lines 94-95, 158-162 and 201-235: the call ended in an error
CallFailed(r) ==
    /\ active = r /\ req[r].pc = "alive"
    /\ ~IsAlive(threads[req[r].thread])
    /\ LET c == cells[ResultCell(req[r].thread)]
       IN  /\ CellFailed(c)
           /\ HandleFailure(r, ErrorOutcome(req[r].retry_count, settings.GEMINI_RETRY_ATTEMPTS),
                            "exhausted",
                            [delivered |-> req[r].delivered \cup
                                (IF c.exception # JNull THEN {c.exception.from}
                                 ELSE CellSources(c))])
    /\ cells' = Collect(cells, threads, req')
    /\ UNCHANGED <<settings, service, active, threads, sessions>>
    /\ UNCHANGED <<validateVars, unitVars, mergeVars>>

\* lines 97 and 154-185: the call returned a text
CallReturned(r) ==
    /\ active = r /\ req[r].pc = "alive"
    /\ ~IsAlive(threads[req[r].thread])
    /\ LET c == cells[ResultCell(req[r].thread)]
       IN  /\ ~CellFailed(c)
           /\ req' = [req EXCEPT ![r].pc = "parse",
                                 ![r].response_text = c.result.text,
                                 ![r].delivered = @ \cup {c.result.from}]
    /\ cells' = Collect(cells, threads, req')
    /\ UNCHANGED <<settings, service, active, threads, sessions>>
    /\ UNCHANGED <<validateVars, unitVars, mergeVars>>

\* lines 230-231: time.sleep(delay) is over, _make_request(prompt, retry_count + 1)
Wake(r) ==
    /\ active = r /\ req[r].pc = "sleeping"
    /\ req' = [req EXCEPT ![r].pc = "request", ![r].retry_count = @ + 1]
    /\ UNCHANGED <<settings, service, active, threads, cells, sessions>>
    /\ UNCHANGED <<validateVars, unitVars, mergeVars>>

\* lines 532-536: _parse_json_response; an exception it lets through leaves
\* tailor_resume and reaches the endpoint's "except Exception"
Parse(r) ==
    /\ active = r /\ req[r].pc = "parse"
    /\ LET p == parse_json_response(req[r].response_text)
           ran == [stages |-> Append(req[r].stages, "parse")]
       IN  IF p.raised THEN Respond(r, 500, [failed_at |-> "parse"] @@ ran)
           ELSE /\ IF ~Truthy(p.v) THEN ReturnNone(r, "parse", ran)
                   ELSE req' = [req EXCEPT ![r] = [pc |-> "merge", result |-> p.v]
                                                  @@ ran @@ req[r]]
                /\ UNCHANGED active
    /\ UNCHANGED <<settings, service, threads, cells, sessions>>
    /\ UNCHANGED <<validateVars, unitVars, mergeVars>>

\* lines 539-541 and 565-568: result["tailoredResume"] and the merge
Merge(r) ==
    /\ active = r /\ req[r].pc = "merge"
    /\ LET t == PyIndex(req[r].result, K_tailoredResume)
           m == merge_tailored_content(heap, req[r].resume, t.v)
           ran == [stages |-> Append(req[r].stages, "merge")]
       IN  IF t.raised THEN ReturnNone(r, "merge", ran) /\ UNCHANGED heap
           ELSE /\ heap' = m.heap
                /\ IF m.raised THEN ReturnNone(r, "merge", ran)
                   ELSE req' = [req EXCEPT ![r] = [pc |-> "score", enhanced |-> m.enhanced]
                                                  @@ ran @@ req[r]]
    /\ UNCHANGED <<settings, service, active, threads, cells, sessions>>
    /\ UNCHANGED <<validateVars, unitVars, original, tailored, origBefore, merged>>

\* lines 553-568: the score and the TailorResponse
Score(r) ==
    /\ active = r /\ req[r].pc = "score"
    /\ LET b == BuildTailorResponse(req[r].enhanced, req[r].result)
           ran == [stages |-> Append(req[r].stages, "score")]
       IN  IF b.raised THEN ReturnNone(r, "score", ran)
           ELSE req' = [req EXCEPT ![r] = [pc |-> "returned", tailor_response |-> b.response]
                                          @@ ran @@ req[r]]
    /\ UNCHANGED <<settings, service, active, threads, cells, sessions>>
    /\ UNCHANGED <<validateVars, unitVars, mergeVars>>

\* tailor.py lines 95-100
CheckResponse(r) ==
    /\ active = r /\ req[r].pc = "returned"
    /\ IF TailoringFailed(req[r].tailor_response)
       THEN Respond(r, 503, <<>>)
       ELSE req' = [req EXCEPT ![r].pc = "artifacts"] /\ UNCHANGED active
    /\ UNCHANGED <<settings, service, threads, cells, sessions>>
    /\ UNCHANGED <<validateVars, unitVars, mergeVars>>

\* tailor.py lines 120-128: start_session, save_json, return
SaveArtifacts(r) ==
    /\ active = r /\ req[r].pc = "artifacts"
    /\ sessions' = Append(sessions, [req |-> r, resume_id |-> heap[req[r].resume].data.id,
                                     json |-> req[r].tailor_response])
    /\ Respond(r, 200, <<>>)
    /\ UNCHANGED <<settings, service, threads, cells>>
    /\ UNCHANGED <<validateVars, unitVars, mergeVars>>

Next ==
    \/ \E r \in Req : Receive(r)
    \/ \E r \in Req : GetService(r)
    \/ \E r \in Req : Project(r)
    \/ \E r \in Req : StartCall(r)
    \/ \E t \in ThreadIds : UpstreamReturn(t)
    \/ \E t \in ThreadIds : UpstreamRaise(t)
    \/ \E r \in Req : JoinFinished(r)
    \/ \E r \in Req : JoinDeadline(r)
    \/ \E r \in Req : CallTimedOut(r)
    \/ \E r \in Req : CallFailed(r)
    \/ \E r \in Req : CallReturned(r)
    \/ \E r \in Req : Wake(r)
    \/ \E r \in Req : Parse(r)
    \/ \E r \in Req : Merge(r)
    \/ \E r \in Req : Score(r)
    \/ \E r \in Req : CheckResponse(r)
    \/ \E r \in Req : SaveArtifacts(r)

Spec == InitPipeline /\ [][Next]_vars

(***************************************************************************)
(* Properties                                                              *)
(***************************************************************************)
\* the invariants the schema enforces on a Resume: validate_experience,
\* Experience.description min_items=1, validate_skills
ResumeInvariants(r) ==
    /\ r.experience # <<>>
    /\ \A i \in 1..Len(r.experience) :
           /\ r.experience[i].description.t = "list"
           /\ r.experience[i].description.xs # <<>>
    /\ Truthy(r.skills)

MergeReturned == merged.done /\ ~merged.raised
Enhanced == ResumeValue(heap, merged.enhanced)

\* the entries of the AI result's list under listKey
AIEntries(t, listKey) ==
    IF t.t = "dict" /\ HasKey(t, listKey) /\ DictGet(t, listKey).t = "list"
    THEN DictGet(t, listKey).xs ELSE <<>>

\* the positions of the AI entries whose nameKey field equals name exactly
AIMatches(t, listKey, nameKey, name) ==
    {i \in 1..Len(AIEntries(t, listKey)) :
        LET e == AIEntries(t, listKey)[i]
        IN  e.t = "dict" /\ HasKey(e, nameKey) /\ DictGet(e, nameKey) = JStr(name)}

Max(S) == CHOOSE x \in S : \A y \in S : y <= x

\* the AI result gives an empty list as the description of this company
AIGivesEmptyDescription(t, company) ==
    LET ms == AIMatches(t, K_experiences, K_company, company)
    IN  /\ ms # {}
        /\ DictGetOr(AIEntries(t, K_experiences)[Max(ms)], K_description, Absent) = JList(<<>>)

\* C3: every resume the merge returns satisfies the schema's invariants (at
\* least one experience, every description non-empty, skills non-empty).
C3_MergedResumeValid == MergeReturned => ResumeInvariants(Enhanced)

\* C4: an empty list given as the description of a matched company leaves
\* that experience's original description in place.
C4_EmptyDescriptionKeepsOriginal ==
    MergeReturned =>
        \A i \in 1..Len(origBefore.experience) :
            AIGivesEmptyDescription(tailored, origBefore.experience[i].company)
                => Enhanced.experience[i].description = origBefore.experience[i].description

OnlySummary(t) == t.t = "dict" /\ \A i \in 1..Len(t.kvs) : t.kvs[i].k = K_summary

\* C5: the merge changes nothing but the summary, the descriptions of the
\* experiences and the highlights of the projects named in the AI result,
\* and the skills; lists keep their length and order, and an AI result with
\* only a summary leaves experience, projects and certifications as they were.
C5_MergeFrame ==
    MergeReturned =>
        LET o == origBefore
            e == Enhanced
        IN  /\ e.id = o.id /\ e.name = o.name
            /\ e.personalInfo.name = o.personalInfo.name
            /\ e.personalInfo.email = o.personalInfo.email
            /\ e.education = o.education
            /\ e.certifications = o.certifications
            /\ Len(e.experience) = Len(o.experience)
            /\ \A i \in 1..Len(o.experience) :
                   /\ e.experience[i].company = o.experience[i].company
                   /\ e.experience[i].position = o.experience[i].position
                   /\ e.experience[i].startDate = o.experience[i].startDate
                   /\ e.experience[i].endDate = o.experience[i].endDate
                   /\ AIMatches(tailored, K_experiences, K_company, o.experience[i].company) = {}
                          => e.experience[i].description = o.experience[i].description
            /\ Len(e.projects) = Len(o.projects)
            /\ \A i \in 1..Len(o.projects) :
                   /\ e.projects[i].name = o.projects[i].name
                   /\ e.projects[i].description = o.projects[i].description
                   /\ AIMatches(tailored, K_projects, K_name, o.projects[i].name) = {}
                          => e.projects[i].highlights = o.projects[i].highlights
            /\ OnlySummary(tailored) =>
                   /\ e.experience = o.experience
                   /\ e.projects = o.projects
                   /\ e.skills = o.skills

\* C5 witness: a merge that rewrote the first of two experiences and the
\* summary and left the second experience alone
C5_Witness ==
    /\ MergeReturned
    /\ Len(origBefore.experience) = 2
    /\ Enhanced.experience[1].description # origBefore.experience[1].description
    /\ Enhanced.experience[2].description = origBefore.experience[2].description
    /\ Enhanced.personalInfo.summary # origBefore.personalInfo.summary

\* C6: the merge leaves the original Resume as it was, whether it returns
\* or raises, and the resume it returns shares no object with the original.
C6_OriginalNotMutated ==
    merged.done =>
        /\ ResumeValue(heap, original) = origBefore
        /\ ~merged.raised =>
               Reachable(heap, merged.enhanced) \cap Reachable(heap, original) = {}

\* C6 witness: a merge that returned a resume with new skills and a new
\* project highlight list
C6_Witness ==
    /\ MergeReturned
    /\ Enhanced.skills # origBefore.skills
    /\ Len(origBefore.projects) > 0
    /\ Enhanced.projects[1].highlights # origBefore.projects[1].highlights
    /\ ResumeValue(heap, original) = origBefore

\* the request gives "experience" as an empty list
ExperienceGivenEmpty(d) ==
    HasKey(d, K_experience) /\ DictGet(d, K_experience) = JList(<<>>)

\* the request gives a "skills" value that coerces to an empty list or mapping
SkillsCoerceEmpty(d) ==
    /\ HasKey(d, SkillsKey)
    /\ coerce_skills(DictGet(d, SkillsKey)).ok
    /\ \/ coerce_skills(DictGet(d, SkillsKey)).v = JList(<<>>)
       \/ coerce_skills(DictGet(d, SkillsKey)).v = JDict(<<>>)

\* C10: validation rejects every input whose experience is an empty list or
\* whose skills value coerces to an empty collection.
C10_EmptyRejected ==
    validation.done /\ (ExperienceGivenEmpty(rawInput) \/ SkillsCoerceEmpty(rawInput))
        => ~validation.ok

\* C10 witness: skills given as an empty mapping next to a valid experience
\* list is rejected for the skills field alone
C10_Witness ==
    /\ validation.done
    /\ DictGetOr(rawInput, SkillsKey, Absent) = JDict(<<>>)
    /\ validation.errors = {"skills"}

\* a skill of a canonical skills value: a non-blank string that is an element
\* of the flat list or of one of the mapping's categories
IsSkill(x) == x.t = "str" /\ Strip(x.s) # <<>>

HasSkill(v) ==
    \/ v.t = "list" /\ \E i \in 1..Len(v.xs) : IsSkill(v.xs[i])
    \/ /\ v.t = "dict"
       /\ \E i \in 1..Len(v.kvs) :
              v.kvs[i].v.t = "list" /\ \E j \in 1..Len(v.kvs[i].v.xs) : IsSkill(v.kvs[i].v.xs[j])

\* C11: a request that gives a skills value and passes validation yields a
\* resume holding at least one skill across its categories or elements.
C11_ValidatedHasSkill ==
    validation.done /\ validation.ok /\ HasKey(rawInput, SkillsKey)
        => HasSkill(validation.resume.skills)

\* C12: a request body that omits the skills field or the experience field is
\* rejected by validation.
C12_OmittedRejected ==
    validation.done /\ (~HasKey(rawInput, SkillsKey) \/ ~HasKey(rawInput, K_experience))
        => ~validation.ok

\* the skills value the request gives
SkillsGiven == DictGetOr(rawInput, SkillsKey, Absent)

\* the two canonical shapes: a list of strings, a mapping from category
\* name to list of strings
IsFlat(v) == v.t = "list" /\ \A i \in 1..Len(v.xs) : v.xs[i].t = "str"

IsCategorized(v) ==
    /\ v.t = "dict"
    /\ \A i \in 1..Len(v.kvs) :
           /\ v.kvs[i].v.t = "list"
           /\ \A j \in 1..Len(v.kvs[i].v.xs) : v.kvs[i].v.xs[j].t = "str"

\* a list whose first element is a category object
IsCategoryList(v) ==
    v.t = "list" /\ v.xs # <<>> /\ v.xs[1].t = "dict" /\ HasKey(v.xs[1], CategoryKey)

\* C22: the skills of an accepted request are in exactly one canonical shape:
\* Categorized when the request gave a mapping or a list of category
\* objects, Flat when it gave a string or another list; never a mixture.
C22_CanonicalShape ==
    validation.done /\ validation.ok /\ SkillsGiven # Absent =>
        LET out == validation.resume.skills
        IN  /\ IsFlat(out) \/ IsCategorized(out)
            /\ SkillsGiven.t = "dict" \/ IsCategoryList(SkillsGiven) => IsCategorized(out)
            /\ SkillsGiven.t = "str" \/ (SkillsGiven.t = "list" /\ ~IsCategoryList(SkillsGiven))
                   => IsFlat(out)

\* C22 witness: a list that mixes a plain string with a category object is
\* accepted as the Flat list of its strings
C22_Witness ==
    /\ validation.done /\ validation.ok
    /\ SkillsGiven.t = "list" /\ Len(SkillsGiven.xs) = 2
    /\ SkillsGiven.xs[1] = JStr(Go) /\ SkillsGiven.xs[2].t = "dict"
    /\ validation.resume.skills = StrList(<<Go>>)

\* C23: a skills list of plain strings becomes the Flat list of its trimmed
\* elements, without the blank ones, in the order given.
C23_FlatTrimmedNoBlanks ==
    validation.done /\ validation.ok /\ SkillsGiven # Absent /\ IsFlat(SkillsGiven) =>
        validation.resume.skills = JList(StrStripDropList(SkillsGiven.xs))

\* the skills value of the AI result, Absent when it gives none
AISkillsGiven == DictGetOr(tailored, SkillsKey, Absent)

\* the AI skills value holds at least one skill once coerce_skills is applied
AISkillsCoerceNonEmpty ==
    /\ AISkillsGiven # Absent
    /\ coerce_skills(AISkillsGiven).ok
    /\ HasSkill(coerce_skills(AISkillsGiven).v)

\* C16: the merge changes the skills only for an AI skills value that is
\* present and holds at least one skill after coercion; any other value
\* leaves the original skills, and a value that replaces them is a list of
\* strings or a mapping from category to list of strings.
C16_SkillsReplacedOnlyByCoerced ==
    MergeReturned =>
        /\ Enhanced.skills # origBefore.skills => AISkillsCoerceNonEmpty
        /\ ~AISkillsCoerceNonEmpty => Enhanced.skills = origBefore.skills
        /\ Enhanced.skills # origBefore.skills => IsSkillsType(Enhanced.skills)

\* the AI result gives experiences, but not as a list
ExperiencesNotList(t) ==
    HasKey(t, K_experiences) /\ DictGet(t, K_experiences).t # "list"

\* an entry of the AI result's list lacks one of the fields the merge reads
\* from it
EntryLacks(t, listKey, fields) ==
    \E i \in 1..Len(AIEntries(t, listKey)) :
        \/ AIEntries(t, listKey)[i].t # "dict"
        \/ \E f \in fields : ~HasKey(AIEntries(t, listKey)[i], f)

HasBadField(t) ==
    \/ ExperiencesNotList(t)
    \/ EntryLacks(t, K_experiences, {K_company, K_description})
    \/ EntryLacks(t, K_projects, {K_name})

\* C17: an AI result with a missing or wrong-typed field among those the
\* merge reads is merged all the same: the merge returns, and experiences
\* given as something else than a list leave the original experience list.
C17_BadFieldTolerated ==
    merged.done /\ HasBadField(tailored) =>
        /\ MergeReturned
        /\ ExperiencesNotList(tailored) => Enhanced.experience = origBefore.experience

(***************************************************************************)
(* Properties of the pipeline                                              *)
(***************************************************************************)
\* the upstream calls issued for request r, in the order of their issue
ThreadsOf(r) == {t \in 1..Len(threads) : threads[t].req = r}

RunningOf(r) == {t \in ThreadsOf(r) : threads[t].out = "running"}

SessionsOf(r) == {i \in 1..Len(sessions) : sessions[i].req = r}

\* request r has left _make_request
PastCall(r) == req[r].pc \in {"parse", "merge", "score", "returned", "artifacts", "done"}

\* the tailoring of request r has ended in failure
EndedInFailure(r) ==
    /\ req[r].pc \in {"returned", "done"}
    /\ req[r].tailor_response = JNull
    /\ req[r].pc = "done" => req[r].http = 503
    /\ SessionsOf(r) = {}

\* the delays d * 2^k for k = 0..n-1
BackoffSchedule(d, n) == [k \in 1..n |-> d * (2 ^ (k - 1))]

IsPrefix(a, b) == Len(a) <= Len(b) /\ a = SubSeq(b, 1, Len(a))

\* C1: when _call_with_timeout finds the call still running after the
\* deadline wait (is_alive() at line 89), at the first attempt or at a later
\* one, the request ends in failure, that call stays the last call issued
\* for the request (attempt k timing out means k + 1 calls in total, one
\* call for the first attempt), and nothing was slept for it.
C1_TimeoutNeverRetried ==
    \A r \in Req : \A t \in req[r].abandoned :
        /\ req[r].failure = "timeout"
        /\ EndedInFailure(r)
        /\ \A u \in ThreadsOf(r) : u <= t
        /\ Cardinality(ThreadsOf(r)) = threads[t].attempt + 1
        /\ Len(req[r].slept) = threads[t].attempt

\* a request timed out at a retry, after transient errors, and has been
\* answered while the call it abandoned is still running
C1_Witness ==
    \E r \in Req : \E t \in req[r].abandoned :
        /\ threads[t].attempt > 0
        /\ req[r].pc = "done"
        /\ threads[t].out = "running"

C7_StagesInOrder ==
    /\ \A r \in Req :
        /\ IsPrefix(req[r].stages, StageOrder)
        /\ req[r].failed_at = "service" => req[r].stages = <<>>
        /\ req[r].failed_at \in {"call", "parse", "merge", "score"} =>
               /\ req[r].stages # <<>>
               /\ req[r].stages[Len(req[r].stages)] = req[r].failed_at
        /\ req[r].failed_at # "none" =>
               /\ SessionsOf(r) = {}
               /\ req[r].pc \in {"returned", "done"}
               /\ req[r].http \in {0, 500, 503}
        /\ req[r].http = 200 => req[r].failed_at = "none"
    /\ \A i \in 1..Len(sessions) :
        /\ req[sessions[i].req].failed_at = "none"
        /\ req[sessions[i].req].stages = StageOrder
        /\ sessions[i].json # JNull

\* one tailoring failed at the merge and was answered without an artifact,
\* another ran all five stages and saved its JSON
C7_Witness ==
    \E r, q \in Req :
        /\ req[r].pc = "done" /\ req[r].failed_at = "merge"
        /\ req[r].stages = <<"projection", "call", "parse", "merge">>
        /\ req[q].pc = "done" /\ req[q].http = 200 /\ SessionsOf(q) # {}

\* C8: a request has at most one upstream call running; a later call of the
\* request is issued only when the earlier ones have ended in an error and
\* the backoff delays up to it have been slept; and no call is issued for
\* a request after a call of it was found still running at the deadline.
C8_OneCallInFlight ==
    \A r \in Req :
        /\ Cardinality(RunningOf(r)) <= 1
        /\ \A t, u \in ThreadsOf(r) :
               t < u => /\ threads[t].out = "no_text"
                        /\ Len(req[r].slept) >= threads[u].attempt
                        /\ threads[u].attempt = threads[t].attempt + (u - t)
        /\ \A t \in req[r].abandoned : \A u \in ThreadsOf(r) : u <= t
        /\ req[r].pc = "sleeping" => RunningOf(r) = {}

\* a retry is running after an earlier call of the same request failed
C8_Witness ==
    \E r \in Req : \E t, u \in ThreadsOf(r) :
        /\ t < u
        /\ threads[t].out = "no_text"
        /\ threads[u].out = "running"

\* C9: at the deadline the wait in _call_with_timeout ends and the timeout
\* is raised while the call is still running, and what a request is given
\* comes from its own calls that were not abandoned: the result or
\* exception of an abandoned call reaches no request.
C9_AbandonedResultDiscarded ==
    \A r \in Req :
        /\ \A t \in req[r].delivered :
               /\ threads[t].req = r
               /\ \A q \in Req : t \notin req[q].abandoned
        /\ (req[r].pc = "join" /\ RunningOf(r) # {}) => ENABLED JoinDeadline(r)
        /\ (req[r].pc = "alive" /\ RunningOf(r) # {}) => ENABLED CallTimedOut(r)

\* an abandoned call has returned a text after its request was answered,
\* and a later request has been given the result of its own call
C9_Witness ==
    \E r, q \in Req : \E t \in req[r].abandoned :
        /\ r # q
        /\ req[r].pc = "done"
        /\ threads[t].out = "text"
        /\ req[q].delivered # {}
        /\ req[q].http = 200

\* C21: a request that failed at the upstream call (deadline missed or retry
\* budget spent) is answered with 503, and a request whose response could
\* not be parsed or merged is answered with 500.
C21_FailureKindsDistinct ==
    \A r \in Req :
        req[r].pc = "done" =>
            /\ req[r].failed_at = "call" => req[r].http = 503
            /\ req[r].failed_at \in {"parse", "merge"} => req[r].http = 500

(***************************************************************************)
(* Properties of the matching of descriptions by company name              *)
(***************************************************************************)
\* the description the last AI entry for this company gives, as a value of
\* the description field: a list as it is, a string split into lines
LastAIDescription(t, company) ==
    LET ms == AIMatches(t, K_experiences, K_company, company)
        d == DictGetOr(AIEntries(t, K_experiences)[Max(ms)], K_description, Absent)
    IN  IF d.t = "str" THEN SplitLines(d.s) ELSE d

\* C30: an original experience whose company the AI result names receives
\* the description of the last AI entry of that name, wherever the two
\* stand in their lists; experiences of one company name all receive it.
C30_MatchedByCompanyLastWins ==
    MergeReturned =>
        \A i \in 1..Len(origBefore.experience) :
            LET company == origBefore.experience[i].company
            IN  (/\ AIMatches(tailored, K_experiences, K_company, company) # {}
                 /\ LastAIDescription(tailored, company).t = "list")
                    => Enhanced.experience[i].description
                           = LastAIDescription(tailored, company)

\* C30 witness: two original experiences at Acme and an AI result that
\* lists Acme twice; both received the description of the second entry
C30_Witness ==
    /\ MergeReturned
    /\ Len(origBefore.experience) = 2
    /\ origBefore.experience[1].company = Acme
    /\ origBefore.experience[2].company = Acme
    /\ Cardinality(AIMatches(tailored, K_experiences, K_company, Acme)) = 2
    /\ Enhanced.experience[1].description = StrList(<<BulletY>>)
    /\ Enhanced.experience[2].description = StrList(<<BulletY>>)
    /\ origBefore.experience[1].description # origBefore.experience[2].description

(***************************************************************************)
(* Properties of the projection of a flat skills list                      *)
(***************************************************************************)
\* the skills categories of the dict the projector returned, in dict order
SentCategories == DictGet(projection.minimal, SkillsKey).kvs

RECURSIVE ConcatLists(_)
\* the lists of the categories, one after the other
ConcatLists(kvs) ==
    IF kvs = <<>> THEN <<>> ELSE kvs[1].v.xs \o ConcatLists(Tail(kvs))

\* C24: a flat skills list is sent as categories of at most 6 skills, the
\* first named "Primary Skills", the others "Skills Set N" with names that
\* differ from each other; the categories in order, put end to end, are the
\* original list.
C24_FlatSkillsChunked ==
    (projection # JNull /\ projection.done) =>
        LET cats == SentCategories
        IN  /\ \A j \in 1..Len(cats) :
                   /\ cats[j].v.t = "list"
                   /\ Len(cats[j].v.xs) \in 1..6
                   /\ IF j = 1 THEN cats[j].k = PrimarySkills
                      ELSE /\ Len(cats[j].k) > Len(SkillsSetPrefix)
                           /\ SubSeq(cats[j].k, 1, Len(SkillsSetPrefix)) = SkillsSetPrefix
            /\ \A j, k \in 1..Len(cats) : j # k => cats[j].k # cats[k].k
            /\ ConcatLists(cats) = projection.resume.skills.xs

\* C24 witness: fourteen skills, no two alike, were sent as three categories
C24_Witness ==
    /\ projection # JNull /\ projection.done
    /\ Len(projection.resume.skills.xs) = 14
    /\ \A j, k \in 1..14 :
           j # k => projection.resume.skills.xs[j] # projection.resume.skills.xs[k]
    /\ Len(SentCategories) = 3
    /\ SentCategories[3].k = SkillsSetPrefix \o <<"3">>
    /\ Len(SentCategories[3].v.xs) = 2

(***************************************************************************)
(* Properties of the artifact sessions                                     *)
(***************************************************************************)
\* C29: no two start_session calls return the same path.
C29_SessionFoldersDistinct ==
    store # JNull =>
        \A i, j \in 1..Len(store.calls) :
            i # j => store.calls[i].path # store.calls[j].path

(***************************************************************************)
(* Properties of the shared GeminiService                                  *)
(***************************************************************************)
\* C28: at most one GeminiService is constructed, and every request that
\* obtained the service obtained that one instance.
C28_OneServiceInstance ==
    /\ service \in {0, 1}
    /\ \A r \in Req : req[r].gemini_service \in {0, 1}
    /\ \A r \in Req : req[r].gemini_service # 0 => req[r].gemini_service = service

\* C28 witness: two requests have been served, both by the first instance
C28_Witness ==
    /\ service = 1
    /\ \A r \in Req : req[r].pc = "done" /\ req[r].gemini_service = 1

(***************************************************************************)
(* Properties of _parse_json_response                                      *)
(***************************************************************************)
ParseDone == parse.pc = "done"

\* the statement-by-statement run and the function the pipeline applies agree
ParseAgrees ==
    ParseDone => [raised |-> parse.raised, v |-> parse.v] = parse_json_response(parse.text)

\* C13: a call of _parse_json_response ends without raising, and what it
\* returns is a mapping or the parse-failure value None, never another JSON
\* value, whether it came from the strict parse or from the repaired text.
C13_MappingOrFailure ==
    ParseDone => ~parse.raised /\ parse.v.t \in {"dict", "null"}

\* the five repairs in the order the claim gives them
ClaimedRepairs == <<"quote", "braces", "brackets", "commas", "dangling">>

\* C14: a call makes at most two strict parse attempts; the second comes
\* after one pass of the repairs close-quote, closing braces, closing
\* brackets, trailing-comma removal, dangling-comma removal, in this order
\* and each once, and the call ends right after it.
C14_OnePassOfRepairs ==
    /\ parse.loads <= 2
    /\ IsPrefix(parse.steps, ClaimedRepairs)
    /\ parse.loads = 2 => parse.steps = ClaimedRepairs /\ ParseDone
    /\ ParseDone => \/ parse.loads = 1 /\ parse.steps = <<>>
                    \/ parse.loads = 2 /\ parse.steps = ClaimedRepairs
    /\ parse.pc \in {"strict", "idle"} <=> parse.loads = 0

\* C14 witness: a text whose strict parse failed went through the five
\* repairs, two of which changed it, and its second parse failed as well
C14_Witness ==
    /\ ParseDone /\ parse.loads = 2 /\ parse.v = JNull
    /\ parse.text = T_Nested
    /\ parse.work = T_Nested \o <<"}", "}", "]", "]">>

\* C15: for a text cut like the documented example, the repair yields a
\* document that parses and that is the text with one quote and two closing
\* braces appended.
C15_ExampleRepaired ==
    ParseDone /\ parse.text \in ExampleTexts
        => /\ parse.v.t = "dict"
           /\ parse.work = parse.text \o <<Quote, "}", "}">>

(***************************************************************************)
(* Properties of _calculate_ats_score                                      *)
(***************************************************************************)
NumMatched == Len(score.matched.xs)
NumMissing == Len(score.missing.xs)

\* C18: the score is 75 for no keywords at all, 80 for 8 matched and 2
\* missing keywords, and an integer from 0 to 100 for all counts.
C18_ScoreInRange ==
    score.done =>
        /\ score.value \in 0..100
        /\ NumMatched = 0 /\ NumMissing = 0 => score.value = 75
        /\ NumMatched = 8 /\ NumMissing = 2 => score.value = 80

\* C18 witness: the score of 8 matched and 2 missing keywords is 80
C18_Witness == score.done /\ NumMatched = 8 /\ NumMissing = 2 /\ score.value = 80

\* the integers nearest to x / y, for y > 0: one, or two when x / y lies
\* halfway between them
NearestIntegers(x, y) ==
    {n \in 0..100 : 2 * (IF n * y >= x THEN n * y - x ELSE x - n * y) <= y}

\* C19: when there is a keyword, the score is matched / (matched + missing)
\* * 100 rounded to the nearest integer.
C19_ScoreRounded ==
    score.done /\ NumMatched + NumMissing > 0 =>
        score.value \in NearestIntegers(100 * NumMatched, NumMatched + NumMissing)

(***************************************************************************)
(* Properties of _make_request's retries                                   *)
(***************************************************************************)
RunsDone == retry # JNull /\ \A i \in Runs : retry.run[i].pc = "done"

\* C20: two calls of _make_request whose attempts end the same way issue the
\* same number of upstream calls, sleep the same delays and end in the same
\* outcome, whatever the classification of their errors as rate-limit-like
\* or generic.
C20_ClassificationIrrelevant ==
    RunsDone =>
        /\ retry.run[1].calls = retry.run[2].calls
        /\ retry.run[1].slept = retry.run[2].slept
        /\ retry.run[1].outcome = retry.run[2].outcome

\* C20 witness: with three retries, one call saw four rate-limit-like errors
\* and the other four generic ones; both made four calls and slept 1, 2, 4
C20_Witness ==
    /\ RunsDone
    /\ retry.attempts = 3 /\ retry.delay = 1
    /\ retry.run[1].warned = <<TRUE, TRUE, TRUE, TRUE>>
    /\ retry.run[2].warned = <<FALSE, FALSE, FALSE, FALSE>>
    /\ retry.run[1].calls = 4 /\ retry.run[2].calls = 4
    /\ retry.run[1].slept = <<1, 2, 4>>
    /\ retry.run[2].outcome = "failed"

\* C25: the time a call of _make_request spends waiting on the upstream
\* service, over all its attempts, is at most one timeout period.
C25_WaitWithinOneTimeout ==
    retry # JNull => \A i \in Runs : retry.run[i].waited <= TimeoutTicks

\* what is left of run i: the attempts not yet begun, and the steps of the
\* attempt it is in
StepsLeft(i) ==
    LET run == retry.run[i]
    IN  3 * (retry.attempts + 1 - run.retry_count)
          + (CASE run.pc = "call" -> 3 [] run.pc = "except" -> 2
               [] run.pc = "sleeping" -> 1 [] OTHER -> 0)

\* C26: _make_request makes at most GEMINI_RETRY_ATTEMPTS + 1 upstream calls
\* and ends: every attempt it begins meets an end of the upstream call, and
\* every step brings it nearer to the end of its last attempt.  A call answered with a
\* non-empty text, cut off or not, ends it at that attempt with exactly that
\* text as its result.
C26_CallsBoundedTextReturned ==
    /\ [](/\ \A i \in Runs :
                LET run == retry.run[i]
                IN  /\ run.calls <= retry.attempts + 1
                    /\ run.retry_count <= retry.attempts
                    /\ (run.response # JNull /\ run.response.s # <<>>) =>
                           /\ run.pc = "done" /\ run.outcome = "text"
                           /\ run.returned = run.response
                           /\ run.calls = run.retry_count + 1
          /\ \A i \in Runs :
                retry.run[i].pc = "call" =>
                    retry.run[i].retry_count < Len(retry.script))
    /\ [][StepsLeft(1) + StepsLeft(2) > StepsLeft(1)' + StepsLeft(2)']_vars

\* C26 witness: after one error the second attempt is answered with a text
\* that is cut off; the call ends there with that text
C26_Witness ==
    /\ retry # JNull /\ retry.run[1].pc = "done"
    /\ retry.run[1].calls = 2 /\ retry.run[1].slept = <<retry.delay>>
    /\ retry.run[1].truncation
    /\ retry.run[1].returned = JStr(<<"[", "{">>)

\* the delays slept before the retries 1..n: GEMINI_RETRY_DELAY * 2**k
RetrySchedule(n) == [k \in 1..n |-> retry.delay * (2 ^ (k - 1))]

\* C27: an empty response text goes the way of an exception of the call: the
\* next attempt follows after the delay of the backoff schedule while
\* retry_count is below GEMINI_RETRY_ATTEMPTS, and the call fails only at
\* the attempt that spends the budget.
C27_EmptyTextRetriedLikeError ==
    retry # JNull =>
        \A i \in Runs :
            LET run == retry.run[i]
            IN  /\ run.slept = RetrySchedule(Len(run.slept))
                /\ run.response = JStr(<<>>) =>
                       CASE run.pc = "except" -> Len(run.slept) = run.retry_count
                         [] run.pc = "sleeping" ->
                                /\ run.retry_count < retry.attempts
                                /\ Len(run.slept) = run.retry_count + 1
                         [] run.pc = "call" -> Len(run.slept) = run.retry_count
                         [] OTHER ->
                                /\ run.outcome = "failed" /\ run.returned = JNull
                                /\ run.retry_count = retry.attempts
                                /\ run.calls = retry.attempts + 1
                                /\ run.slept = RetrySchedule(retry.attempts)

\* C27 witness: with three retries every attempt was answered with an empty
\* text; the call made four attempts, slept 1, 2 and 4, and failed
C27_Witness ==
    /\ retry # JNull /\ retry.attempts = 3 /\ retry.delay = 1
    /\ retry.script = <<"empty", "empty", "empty", "empty">>
    /\ retry.run[1].pc = "done" /\ retry.run[1].outcome = "failed"
    /\ retry.run[1].calls = 4 /\ retry.run[1].slept = <<1, 2, 4>>

====
